---- MODULE Spec2Model ----
(***************************************************************************)
(* Model of the EdgeAnalytics analytics engine:                            *)
(*   - the Super-Block combiner (alignDates, combineSuperBlock),           *)
(*   - the equity-curve statistics calculator and chart-data builder       *)
(*     (calculateEquityCurveStats, buildEquityCurveChartData,              *)
(*     buildEquityCurveSnapshot).                                          *)
(* Dates are timestamps (Date.getTime()), modelled as small integers.      *)
(* Quotients the code computes in floating point are kept as exact         *)
(* fractions [num, den].                                                   *)
(***************************************************************************)
EXTENDS Integers, Sequences, FiniteSets, TLC

\* ---------------------------------------------------------------- bounds
MaxDate == 3          \* timestamps of Super-Block component entries: 1..MaxDate
MaxEntries == 4       \* total number of entries over all components
MaxComponents == 2    \* number of components handed to combineSuperBlock
MaxLen == 4           \* length of the entry list handed to the statistics
MaxShuffle == 2       \* leading entries of that list that may be out of date order
MantissaBits == 4     \* significant bits of a floating-point number

\* blockName of the 1st, 2nd, ... component of a request
ComponentNames == <<"A", "B", "C", "D">>
Dates == 1..MaxDate
\* the (accountValue, marginReq) pairs component entries are drawn from
EntryKinds == {[accountValue |-> 1, marginReq |-> 0],
               [accountValue |-> 2, marginReq |-> 1]}
\* the accountValue of the entries handed to the statistics
AccountValues == {-2, -1, 0, 2}
Alignments == {"intersection", "union", "earliest-common", "latest-common"}
StatDates == 1..MaxLen
DailyReturns == {-1, 0, 1}
\* the <<dailyReturnPct, accountValue>> pairs an entry is drawn from: the code
\* relates the two fields in no way, so the sample keeps every return and
\* every account value without taking the whole product
EntrySamples == {<<1, 2>>, <<0, 0>>, <<-1, 0>>, <<-1, -1>>, <<-1, -2>>}

VARIABLES
  pc,                 \* "idle", then what the caller is building, then what was called
  componentCurves,    \* combineSuperBlock: blockName -> set of entries (one per date)
  alignment,          \* combineSuperBlock: the DateAlignmentStrategy of the call
  alignedDates,       \* alignDates' result, as seen by combineSuperBlock
  warnings,           \* combineSuperBlock's warnings list
  combinedEquityCurve,\* SuperBlockData.combinedEquityCurve
  dateRange,          \* SuperBlockData.dateRange
  error,              \* message of the Error combineSuperBlock threw, or NoError
  entries,            \* input list of calculateEquityCurveStats / buildEquityCurveChartData
  portfolioStats,     \* EquityCurveSnapshot.portfolioStats
  chartData,          \* EquityCurveSnapshot.chartData
  seriesName,         \* the strategyName of the entries of the call, "" for none
  seriesX,            \* first argument of the correlation primitives
  seriesY,            \* second argument of the correlation primitives
  correlation,        \* what each correlation primitive returned for (seriesX, seriesY)
  rankArr,            \* argument of getRanks
  rankResult,         \* what getRanks returned for rankArr
  strategyCurves,     \* strategy name -> set of equity-curve entries (one per date)
  matrixMethod,       \* the method argument of the flat matrix function
  matrixResult,       \* what each calculateEquityCurveCorrelationMatrix returned
  correlationMatrix,  \* argument of calculateEquityCurveCorrelationAnalytics
  analytics,          \* what calculateEquityCurveCorrelationAnalytics returned
  spyEntries,         \* the benchmark's equity-curve entries (one per date)
  spyResults,         \* what calculateEquityCurveSPYCorrelations returned
  dbBlocks,           \* the blocks object store: block id -> the block's isActive and type
  dbRecords,          \* object store -> the ids of the blocks it holds records of
  blocksCreated,      \* how many blocks createBlock has stored (ids are never reused)
  lastCall,           \* the last call of the blocks database and whether it threw
  storeData,          \* usePerformanceStore: data
  isLoading,          \* usePerformanceStore: isLoading
  storeError,         \* usePerformanceStore: error
  storeFilters,       \* usePerformanceStore: whether a date range, strategy or 1-lot filter is set
  pendingFetches,     \* the fetchPerformanceData calls that await the database
  pendingFilters      \* the applyFilters calls that await buildPerformanceSnapshot

\* the variables of the Super-Block combiner and of the statistics
blockVars == <<componentCurves, alignment, alignedDates, warnings,
               combinedEquityCurve, dateRange, error, entries, portfolioStats, chartData,
               seriesName>>
\* the variables of the correlation primitives
primitiveVars == <<seriesX, seriesY, correlation, rankArr, rankResult>>
\* the variables of the correlation matrix
matrixVars == <<strategyCurves, matrixMethod, matrixResult>>
\* the variables of the correlation analytics
analyticsVars == <<correlationMatrix, analytics>>
\* the variables of the correlation code
corrVars == <<primitiveVars, matrixVars, analyticsVars>>

\* the variables of the benchmark correlation
benchmarkVars == <<spyEntries, spyResults>>
\* the variables of the blocks database
dbVars == <<dbBlocks, dbRecords, blocksCreated, lastCall>>
\* the variables of the performance store
storeVars == <<storeData, isLoading, storeError, storeFilters, pendingFetches, pendingFilters>>
\* the variables of the code beside the combiner, the statistics and the
\* strategy correlations
restVars == <<benchmarkVars, dbVars, storeVars>>

vars == <<pc, blockVars, corrVars, restVars>>

NoError == "none"
NoDate == 0
None == [none |-> TRUE]

\* the object stores deleteBlock opens, and the one of the equity curves
BlockStores == {"trades", "dailyLogs", "reportingLogs", "calculations"}
EquityCurveStore == "equityCurves"
Stores == BlockStores \cup {EquityCurveStore}
NoCall == [op |-> "none", blockId |-> 0, raised |-> FALSE, puts |-> 0]

\* ------------------------------------------------------- generic helpers
SetMin(S) == CHOOSE x \in S : \A y \in S : x <= y

RECURSIVE SortAsc(_)
\* Array.from(set).sort((a, b) => a - b)
SortAsc(S) == IF S = {} THEN <<>>
              ELSE LET m == SetMin(S) IN <<m>> \o SortAsc(S \ {m})

RECURSIVE Reverse(_)
\* Array.prototype.reverse
Reverse(s) == IF s = <<>> THEN <<>> ELSE Reverse(Tail(s)) \o <<Head(s)>>

RECURSIVE SumOver(_, _)
\* sum of f[x] over the finite set S
SumOver(f, S) == IF S = {} THEN 0
                 ELSE LET x == CHOOSE y \in S : TRUE
                      IN f[x] + SumOver(f, S \ {x})

Range(s) == {s[i] : i \in 1..Len(s)}

\* ------------------------------------------------------------ alignDates
\* components.every(c => datesByComponent[c].some(d => d.getTime() === timestamp))
IsCommonDate(timestamp, datesByComponent) ==
  \A component \in DOMAIN datesByComponent :
    \E i \in 1..Len(datesByComponent[component]) :
      datesByComponent[component][i] = timestamp

\* allDates Set, sorted ascending
SortedAllDates(datesByComponent) ==
  SortAsc(UNION {Range(datesByComponent[c]) : c \in DOMAIN datesByComponent})

\* Array.prototype.find over the common-date predicate: the first such
\* element, or NoDate (undefined)
FindCommon(dates, datesByComponent) ==
  LET hits == {i \in 1..Len(dates) : IsCommonDate(dates[i], datesByComponent)}
  IN IF hits = {} THEN NoDate ELSE dates[SetMin(hits)]

\* variant: the overlap warning with <= in place of <
LimitedOverlapInclusive(nAligned, nAll) == 2 * nAligned <= nAll

\* alignedDates.length < sortedAllDates.length / 2
LimitedOverlap(nAligned, nAll) == 2 * nAligned < nAll

AlignIntersection(datesByComponent) ==
  LET sortedAllDates == SortedAllDates(datesByComponent)
      aligned == SelectSeq(sortedAllDates,
                           LAMBDA d : IsCommonDate(d, datesByComponent))
  IN [alignedDates |-> aligned,
      warnings |->
        IF Len(aligned) = 0
          THEN <<"No overlapping dates found across all components">>
        ELSE IF LimitedOverlap(Len(aligned), Len(sortedAllDates))
          THEN <<"Limited date overlap">>
        ELSE <<>>]

AlignUnion(datesByComponent) ==
  [alignedDates |-> SortedAllDates(datesByComponent),
   warnings |-> <<"Using forward-fill for missing dates in some components">>]

\* variant: the earliest-common filter with > in place of >=
AlignEarliestCommonStrict(datesByComponent) ==
  LET sortedAllDates == SortedAllDates(datesByComponent)
      firstCommonDate == FindCommon(sortedAllDates, datesByComponent)
  IN IF firstCommonDate = NoDate
       THEN [alignedDates |-> <<>>, warnings |-> <<"No common start date found">>]
       ELSE [alignedDates |-> SelectSeq(sortedAllDates, LAMBDA d : d > firstCommonDate),
             warnings |-> <<>>]

AlignEarliestCommon(datesByComponent) ==
  LET sortedAllDates == SortedAllDates(datesByComponent)
      firstCommonDate == FindCommon(sortedAllDates, datesByComponent)
  IN IF firstCommonDate = NoDate
       THEN [alignedDates |-> <<>>, warnings |-> <<"No common start date found">>]
       ELSE [alignedDates |-> SelectSeq(sortedAllDates, LAMBDA d : d >= firstCommonDate),
             warnings |-> <<>>]

AlignLatestCommon(datesByComponent) ==
  LET sortedAllDates == SortedAllDates(datesByComponent)
      \* sortedAllDates.reverse() reverses the array in place
      reversed == Reverse(sortedAllDates)
      lastCommonDate == FindCommon(reversed, datesByComponent)
  IN IF lastCommonDate = NoDate
       THEN [alignedDates |-> <<>>, warnings |-> <<"No common end date found">>]
       ELSE [alignedDates |-> SelectSeq(Reverse(reversed), LAMBDA d : d <= lastCommonDate),
             warnings |-> <<>>]

AlignDates(datesByComponent, strategy) ==
  IF DOMAIN datesByComponent = {}
    THEN [alignedDates |-> <<>>, warnings |-> <<"No components to align">>]
  ELSE IF strategy = "intersection" THEN AlignIntersection(datesByComponent)
  ELSE IF strategy = "union" THEN AlignUnion(datesByComponent)
  ELSE IF strategy = "earliest-common" THEN AlignEarliestCommon(datesByComponent)
  ELSE AlignLatestCommon(datesByComponent)

\* ------------------------------------------------------ combineSuperBlock
\* entries.map(e => e.date).sort(...) for every component
DatesByComponent(curves) ==
  [name \in DOMAIN curves |-> SortAsc({e.date : e \in curves[name]})]

\* valuesByComponent[name]: Map from timestamp to entry
ValuesByComponent(curves) ==
  [name \in DOMAIN curves |->
     [d \in {e.date : e \in curves[name]} |->
        CHOOSE e \in curves[name] : e.date = d]]

\* variant: every component without an entry on the date counts as missing
MissingCountAll(names, present, lastKnownValues) ==
  Cardinality(names \ present)

\* missingCount: the components without an entry on the date that are
\* forward-filled from lastKnownValues
MissingCount(names, present, lastKnownValues) ==
  Cardinality({n \in names \ present : n \in DOMAIN lastKnownValues})

\* variant: the last known entry is set once and never refreshed
UpdateLastKnownFirst(lastKnownValues, present, valuesByComponent, timestamp) ==
  [n \in DOMAIN lastKnownValues \cup present |->
     IF n \in DOMAIN lastKnownValues THEN lastKnownValues[n]
     ELSE valuesByComponent[n][timestamp]]

\* lastKnownValues[name] = entry, for every component with an entry on the date
UpdateLastKnown(lastKnownValues, present, valuesByComponent, timestamp) ==
  [n \in DOMAIN lastKnownValues \cup present |->
     IF n \in present THEN valuesByComponent[n][timestamp]
     ELSE lastKnownValues[n]]

\* the entry each component contributes on the date: its own, or its last
\* known one; a component with neither contributes nothing
UsedEntries(valuesByComponent, lastKnownValues, timestamp) ==
  LET names == DOMAIN valuesByComponent
      present == {n \in names : timestamp \in DOMAIN valuesByComponent[n]}
      filled == {n \in names \ present : n \in DOMAIN lastKnownValues}
  IN [n \in present \cup filled |->
        IF n \in present THEN valuesByComponent[n][timestamp]
        ELSE lastKnownValues[n]]

\* combinedMarginReq / componentNames.length
CombinedMarginReq(sumMarginReq, used, componentNames) ==
  [num |-> sumMarginReq, den |-> Cardinality(componentNames)]

\* one CombinedEquityCurve point
CombinedPoint(timestamp, used, combined, componentNames) ==
  LET combinedValue == SumOver([n \in DOMAIN used |-> used[n].accountValue], DOMAIN used)
      sumMarginReq == SumOver([n \in DOMAIN used |-> used[n].marginReq], DOMAIN used)
  IN [date |-> timestamp,
      combinedAccountValue |-> combinedValue,
      componentValues |-> [n \in DOMAIN used |-> used[n].accountValue],
      combinedReturn |->
        IF Len(combined) = 0 THEN [num |-> 0, den |-> 1]
        ELSE [num |-> combinedValue - combined[Len(combined)].combinedAccountValue,
              den |-> combined[Len(combined)].combinedAccountValue],
      combinedMarginReq |-> CombinedMarginReq(sumMarginReq, used, componentNames)]

RECURSIVE CombineLoop(_, _, _, _, _)
\* for (const date of alignedDates) { ... }
CombineLoop(dates, i, valuesByComponent, lastKnownValues, combined) ==
  IF i > Len(dates) THEN combined
  ELSE
    LET timestamp == dates[i]
        names == DOMAIN valuesByComponent
        present == {n \in names : timestamp \in DOMAIN valuesByComponent[n]}
        used == UsedEntries(valuesByComponent, lastKnownValues, timestamp)
        missingCount == MissingCount(names, present, lastKnownValues)
        nextLastKnown == UpdateLastKnown(lastKnownValues, present, valuesByComponent, timestamp)
    IN IF missingCount > 0 /\ Len(combined) = 0
         THEN CombineLoop(dates, i + 1, valuesByComponent, nextLastKnown, combined)
         ELSE CombineLoop(dates, i + 1, valuesByComponent, nextLastKnown,
                          Append(combined, CombinedPoint(timestamp, used, combined, names)))

EmptyFn == [x \in {} |-> 0]

\* { start: alignedDates[0], end: alignedDates[alignedDates.length - 1] };
\* indexing an empty array gives undefined (NoDate)
DateRange(dates) ==
  [start |-> IF Len(dates) > 0 THEN dates[1] ELSE NoDate,
   end |-> IF Len(dates) > 0 THEN dates[Len(dates)] ELSE NoDate]

\* variant: the empty-axis check left out
NoAlignedDatesNever(dates) == FALSE

\* alignedDates.length === 0
NoAlignedDates(dates) == Len(dates) = 0

\* the outcome of combineSuperBlock(components, strategy)
CombineSuperBlockResult(curves, strategy) ==
  LET aligned == AlignDates(DatesByComponent(curves), strategy)
  IN IF NoAlignedDates(aligned.alignedDates)
       THEN [raised |-> TRUE,
             error |-> "No aligned dates found - cannot combine blocks",
             alignedDates |-> aligned.alignedDates,
             warnings |-> aligned.warnings,
             combinedEquityCurve |-> <<>>,
             dateRange |-> None]
       ELSE [raised |-> FALSE,
             error |-> NoError,
             alignedDates |-> aligned.alignedDates,
             warnings |-> aligned.warnings,
             combinedEquityCurve |->
               CombineLoop(aligned.alignedDates, 1, ValuesByComponent(curves), EmptyFn, <<>>),
             dateRange |-> DateRange(aligned.alignedDates)]

\* ------------------------------------------- calculateEquityCurveStats
\* variant: the list is read in the order the caller handed it over
SortByDateNone(es) == es

RECURSIVE SortByDate(_)
\* [...entries].sort((a, b) => a.date.getTime() - b.date.getTime()), stable
SortByDate(es) ==
  IF es = <<>> THEN <<>>
  ELSE LET minDate == SetMin({es[i].date : i \in 1..Len(es)})
           k == SetMin({i \in 1..Len(es) : es[i].date = minDate})
       IN <<es[k]>> \o SortByDate(SubSeq(es, 1, k - 1) \o SubSeq(es, k + 1, Len(es)))

\* dailyReturns.filter(r => r > 0).length
WinningDays(dailyReturns) ==
  Cardinality({i \in 1..Len(dailyReturns) : dailyReturns[i] > 0})

\* dailyReturns.filter(r => r < 0).length
LosingDays(dailyReturns) ==
  Cardinality({i \in 1..Len(dailyReturns) : dailyReturns[i] < 0})

\* variant: the empty statistics carry the default capital
EmptyStatsWithCapital ==
  [initialCapital |-> 10000, totalPl |-> 0, netPl |-> 0, totalTrades |-> 0,
   winningTrades |-> 0, losingTrades |-> 0, breakEvenTrades |-> 0, winRate |-> 0,
   avgWin |-> 0, avgLoss |-> 0, maxWin |-> 0, maxLoss |-> 0, profitFactor |-> 0,
   sharpeRatio |-> 0, sortinoRatio |-> 0, calmarRatio |-> 0, maxDrawdown |-> 0,
   avgDailyPl |-> 0, totalCommissions |-> 0]

\* createEmptyStats()
EmptyStats ==
  [initialCapital |-> 0, totalPl |-> 0, netPl |-> 0, totalTrades |-> 0,
   winningTrades |-> 0, losingTrades |-> 0, breakEvenTrades |-> 0, winRate |-> 0,
   avgWin |-> 0, avgLoss |-> 0, maxWin |-> 0, maxLoss |-> 0, profitFactor |-> 0,
   sharpeRatio |-> 0, sortinoRatio |-> 0, calmarRatio |-> 0, maxDrawdown |-> 0,
   avgDailyPl |-> 0, totalCommissions |-> 0]

\* A quotient a / b of two integers as the number pair it is computed from:
\* den = 0 is the quotient JavaScript gives for a zero divisor, NaN for 0 / 0
\* and +Infinity or -Infinity for a non-zero dividend.
Quot(a, b) == IF b < 0 THEN [num |-> 0 - a, den |-> 0 - b] ELSE [num |-> a, den |-> b]
QIsNaN(q) == q.den = 0 /\ q.num = 0
\* q > r as JavaScript compares numbers: false when either is NaN
QGreater(q, r) ==
  IF QIsNaN(q) \/ QIsNaN(r) THEN FALSE
  ELSE IF q.den = 0 THEN (IF q.num > 0 THEN ~(r.den = 0 /\ r.num > 0) ELSE FALSE)
  ELSE IF r.den = 0 THEN r.num < 0
  ELSE q.num * r.den > r.num * q.den

\* the state of the drawdown loop before the first entry; null is NoDate
InitDrawdown(sortedEntries) ==
  [maxDrawdown |-> 0, maxDrawdownPct |-> Quot(0, 1),
   highWaterMark |-> sortedEntries[1].accountValue,
   currentDrawdownStart |-> NoDate, maxDrawdownDuration |-> 0]

\* const drawdownPct = drawdown / highWaterMark
DrawdownPct(drawdown, highWaterMark) == Quot(drawdown, highWaterMark)

\* the body of the drawdown loop, for one entry
DrawdownStep(s, entry) ==
  LET equity == entry.accountValue
  IN IF equity > s.highWaterMark
       THEN [s EXCEPT !.highWaterMark = equity,
                      !.maxDrawdownDuration =
                         IF s.currentDrawdownStart # NoDate
                            /\ entry.date - s.currentDrawdownStart > @
                           THEN entry.date - s.currentDrawdownStart ELSE @,
                      !.currentDrawdownStart = NoDate]
       ELSE LET drawdown == s.highWaterMark - equity
                drawdownPct == DrawdownPct(drawdown, s.highWaterMark)
                opened == [s EXCEPT !.currentDrawdownStart =
                                       IF @ = NoDate THEN entry.date ELSE @]
            IN IF QGreater(drawdownPct, s.maxDrawdownPct)
                 THEN [opened EXCEPT !.maxDrawdownPct = drawdownPct,
                                     !.maxDrawdown = drawdown]
                 ELSE opened

RECURSIVE DrawdownScan(_, _, _)
\* for (let i = 0; i < sortedEntries.length; i++) { ... }
DrawdownScan(sortedEntries, i, s) ==
  IF i > Len(sortedEntries) THEN s
  ELSE DrawdownScan(sortedEntries, i + 1, DrawdownStep(s, sortedEntries[i]))

\* the default of initialCapital
DefaultCapital == 10000

\* q || 10000: the default for a q that is 0 or NaN, q itself otherwise
\* (an infinite q is truthy)
OrDefault(q) ==
  IF QIsNaN(q) \/ (q.den # 0 /\ q.num = 0) THEN Quot(DefaultCapital, 1) ELSE q

\* initialCapital: accountValue / (1 + dailyReturnPct) of the earliest
\* entry, with `|| 10000` only when that entry has a strategyName; the
\* first entry of the earliest entry's strategy is that entry itself
InitialCapital(sortedEntries) ==
  LET first == sortedEntries[1]
      named == sortedEntries[SetMin({i \in 1..Len(sortedEntries) :
                                       sortedEntries[i].strategyName = first.strategyName})]
  IN IF first.strategyName # ""
       THEN OrDefault(Quot(named.accountValue, 1 + named.dailyReturnPct))
       ELSE Quot(first.accountValue, 1 + first.dailyReturnPct)

\* the day counts, the initial capital and the drawdown figures of
\* calculateEquityCurveStats(entries); maxDrawdownPct and maxDrawdownDuration
\* are the function's locals of that name
CalculateEquityCurveStats(es) ==
  IF Len(es) = 0 THEN EmptyStats
  ELSE
    LET sortedEntries == SortByDate(es)
        dailyReturns == [i \in 1..Len(sortedEntries) |-> sortedEntries[i].dailyReturnPct]
        winningDays == WinningDays(dailyReturns)
        losingDays == LosingDays(dailyReturns)
        dd == DrawdownScan(sortedEntries, 1, InitDrawdown(sortedEntries))
    IN [initialCapital |-> InitialCapital(sortedEntries),
        totalTrades |-> Len(dailyReturns),
        winningTrades |-> winningDays,
        losingTrades |-> losingDays,
        breakEvenTrades |-> Len(dailyReturns) - winningDays - losingDays,
        maxDrawdown |-> dd.maxDrawdown,
        maxDrawdownPct |-> dd.maxDrawdownPct,
        maxDrawdownDuration |-> dd.maxDrawdownDuration]

\* ------------------------------------------- buildEquityCurveChartData
\* dist[k] = (dist[k] || 0) + 1
Bump(dist, k) ==
  [x \in DOMAIN dist \cup {k} |->
     IF x = k THEN (IF k \in DOMAIN dist THEN dist[k] ELSE 0) + 1 ELSE dist[x]]

InitStreaks ==
  [winDistribution |-> EmptyFn, lossDistribution |-> EmptyFn,
   currentWinStreak |-> 0, currentLossStreak |-> 0,
   maxWinStreak |-> 0, maxLossStreak |-> 0,
   winStreaks |-> <<>>, lossStreaks |-> <<>>]

\* if (currentWinStreak > 0) { record it; currentWinStreak = 0 }
FlushWin(s) ==
  IF s.currentWinStreak > 0
    THEN [s EXCEPT !.winDistribution = Bump(@, s.currentWinStreak),
                   !.winStreaks = Append(@, s.currentWinStreak),
                   !.currentWinStreak = 0]
    ELSE s

\* if (currentLossStreak > 0) { record it; currentLossStreak = 0 }
FlushLoss(s) ==
  IF s.currentLossStreak > 0
    THEN [s EXCEPT !.lossDistribution = Bump(@, s.currentLossStreak),
                   !.lossStreaks = Append(@, s.currentLossStreak),
                   !.currentLossStreak = 0]
    ELSE s

ExtendWin(s) ==
  [s EXCEPT !.currentWinStreak = @ + 1,
            !.maxWinStreak = IF s.currentWinStreak + 1 > @ THEN s.currentWinStreak + 1 ELSE @]

ExtendLoss(s) ==
  [s EXCEPT !.currentLossStreak = @ + 1,
            !.maxLossStreak = IF s.currentLossStreak + 1 > @ THEN s.currentLossStreak + 1 ELSE @]

\* variant: a zero return counted as a win (>= 0)
StreakStepZeroIsWin(s, returnPct) ==
  IF returnPct >= 0 THEN ExtendWin(FlushLoss(s))
  ELSE ExtendLoss(FlushWin(s))

\* variant: a zero return leaves an open streak open
StreakStepZeroIgnored(s, returnPct) ==
  IF returnPct > 0 THEN ExtendWin(FlushLoss(s))
  ELSE IF returnPct < 0 THEN ExtendLoss(FlushWin(s))
  ELSE s

\* the body of the streak loop, for one entry
StreakStep(s, returnPct) ==
  IF returnPct > 0 THEN ExtendWin(FlushLoss(s))
  ELSE IF returnPct < 0 THEN ExtendLoss(FlushWin(s))
  ELSE FlushLoss(FlushWin(s))

RECURSIVE StreakScan(_, _, _)
\* for (const entry of sortedEntries) { ... }
StreakScan(sortedEntries, i, s) ==
  IF i > Len(sortedEntries) THEN s
  ELSE StreakScan(sortedEntries, i + 1, StreakStep(s, sortedEntries[i].dailyReturnPct))

\* variant: the final flush left out
FinalFlushNone(s) == s

\* variant: the final flush resets the counters as the flushes of the loop do
FinalFlushResets(s) == FlushLoss(FlushWin(s))

\* "Add final streaks": the open streak is recorded, its counter is kept
FinalFlush(s) ==
  LET w == IF s.currentWinStreak > 0
             THEN [s EXCEPT !.winDistribution = Bump(@, s.currentWinStreak),
                            !.winStreaks = Append(@, s.currentWinStreak)]
             ELSE s
  IN IF w.currentLossStreak > 0
       THEN [w EXCEPT !.lossDistribution = Bump(@, w.currentLossStreak),
                      !.lossStreaks = Append(@, w.currentLossStreak)]
       ELSE w

SeqSum(s) == SumOver(s, DOMAIN s)

\* mean(streaks), or 0 for an empty list
AvgStreak(streaks) ==
  IF Len(streaks) > 0 THEN [num |-> SeqSum(streaks), den |-> Len(streaks)]
  ELSE [num |-> 0, den |-> 1]

\* variant: the high-water mark is the accountValue of the first entry
HighWaterMarksFirst(sortedEntries, i, marks) ==
  [k \in 1..Len(sortedEntries) |-> sortedEntries[1].accountValue]

RECURSIVE HighWaterMarks(_, _, _)
\* the running highWaterMark after each entry, from the first accountValue
HighWaterMarks(sortedEntries, i, marks) ==
  IF i > Len(sortedEntries) THEN marks
  ELSE LET before == IF i = 1 THEN sortedEntries[1].accountValue ELSE marks[i - 1]
           highWaterMark == IF sortedEntries[i].accountValue > before
                              THEN sortedEntries[i].accountValue ELSE before
       IN HighWaterMarks(sortedEntries, i + 1, Append(marks, highWaterMark))

\* equityCurve: one point per entry, tradeNumber i + 1 for index i
EquityCurve(sortedEntries) ==
  LET marks == HighWaterMarks(sortedEntries, 1, <<>>)
  IN [i \in 1..Len(sortedEntries) |->
        [date |-> sortedEntries[i].date, equity |-> sortedEntries[i].accountValue,
         highWaterMark |-> marks[i], tradeNumber |-> i]]

\* drawdownPct = highWaterMark > 0
\*   ? ((entry.accountValue - highWaterMark) / highWaterMark) * 100 : 0
ChartDrawdownPct(accountValue, highWaterMark) ==
  IF highWaterMark > 0 THEN Quot((accountValue - highWaterMark) * 100, highWaterMark)
  ELSE Quot(0, 1)

\* drawdownData: the second loop over the entries, with its own highWaterMark
DrawdownData(sortedEntries) ==
  LET marks == HighWaterMarks(sortedEntries, 1, <<>>)
  IN [i \in 1..Len(sortedEntries) |->
        [date |-> sortedEntries[i].date,
         drawdownPct |-> ChartDrawdownPct(sortedEntries[i].accountValue, marks[i])]]

\* the rolling window of rollingMetrics
WindowSize == 30

\* the one month all timestamps of the model lie in
TheMonth == <<1970, 1>>

\* monthlyReturns and monthlyReturnsPercent: per month the sums of
\* accountValue * dailyReturnPct and of dailyReturnPct * 100
MonthlySum(sortedEntries, percent) ==
  [m \in {TheMonth} |->
     SumOver([i \in 1..Len(sortedEntries) |->
                IF percent THEN sortedEntries[i].dailyReturnPct * 100
                ELSE sortedEntries[i].accountValue * sortedEntries[i].dailyReturnPct],
             1..Len(sortedEntries))]

\* rollingMetrics: one point per entry from the 30th on, here with its date
\* only
RollingMetrics(sortedEntries) ==
  [k \in 1..(IF Len(sortedEntries) < WindowSize THEN 0
             ELSE Len(sortedEntries) - WindowSize + 1) |->
     [date |-> sortedEntries[k + WindowSize - 1].date]]

\* buildEquityCurveChartData(entries); streakData None is the absent field
BuildEquityCurveChartData(es) ==
  IF Len(es) = 0
    THEN [equityCurve |-> <<>>, drawdownData |-> <<>>, monthlyReturns |-> EmptyFn,
          monthlyReturnsPercent |-> EmptyFn, returnDistribution |-> <<>>,
          rollingMetrics |-> <<>>, streakData |-> None]
  ELSE
    LET sortedEntries == SortByDate(es)
        s == FinalFlush(StreakScan(sortedEntries, 1, InitStreaks))
    IN [equityCurve |-> EquityCurve(sortedEntries),
        drawdownData |-> DrawdownData(sortedEntries),
        monthlyReturns |-> MonthlySum(sortedEntries, FALSE),
        monthlyReturnsPercent |-> MonthlySum(sortedEntries, TRUE),
        returnDistribution |->
          [i \in 1..Len(sortedEntries) |-> sortedEntries[i].dailyReturnPct * 100],
        rollingMetrics |-> RollingMetrics(sortedEntries),
        streakData |->
          [winDistribution |-> s.winDistribution,
           lossDistribution |-> s.lossDistribution,
           statistics |->
             [maxWinStreak |-> s.maxWinStreak,
              maxLossStreak |-> s.maxLossStreak,
              avgWinStreak |-> AvgStreak(s.winStreaks),
              avgLossStreak |-> AvgStreak(s.lossStreaks),
              currentStreak |-> IF s.currentWinStreak > 0 THEN s.currentWinStreak
                                ELSE IF s.currentLossStreak > 0 THEN 0 - s.currentLossStreak
                                ELSE 0]]]

\* ----------------------------------------------------- JavaScript numbers
\* The correlation code computes in `number`, binary floating point. A number
\* is modelled as m * 2^e with an odd mantissa m of at most MantissaBits bits
\* (m = 0, e = 0 for zero), or NaN; every operation returns the number
\* nearest to the exact result, ties going to the even mantissa, as IEEE 754
\* prescribes. The exponent is unbounded (no overflow to Infinity, no
\* underflow) and the sign of zero is not kept.
NaN == [nan |-> TRUE, m |-> 0, e |-> 0]
Zero == [nan |-> FALSE, m |-> 0, e |-> 0]

Abs(i) == IF i < 0 THEN 0 - i ELSE i
Sign(i) == IF i < 0 THEN -1 ELSE IF i > 0 THEN 1 ELSE 0
Min(i, j) == IF i < j THEN i ELSE j

RECURSIVE Pow2(_)
Pow2(k) == IF k <= 0 THEN 1 ELSE 2 * Pow2(k - 1)

RECURSIVE BitLen(_)
\* the number of bits of a natural number
BitLen(n) == IF n = 0 THEN 0 ELSE 1 + BitLen(n \div 2)

RECURSIVE Normal(_, _, _)
\* sign * mag * 2^e with the trailing zero bits of mag moved to the exponent
Normal(sign, mag, e) ==
  IF mag = 0 \/ sign = 0 THEN Zero
  ELSE IF mag % 2 = 0 THEN Normal(sign, mag \div 2, e + 1)
  ELSE [nan |-> FALSE, m |-> sign * mag, e |-> e]

\* the number nearest to sign * mag * 2^e: round to nearest, ties to even
Round(sign, mag, e) ==
  LET k == BitLen(mag) - MantissaBits
  IN IF k <= 0 THEN Normal(sign, mag, e)
     ELSE LET q == mag \div Pow2(k)
              r == mag % Pow2(k)
              half == Pow2(k - 1)
          IN Normal(sign, IF r > half \/ (r = half /\ q % 2 = 1) THEN q + 1 ELSE q, e + k)

\* an integer of the source text or an array length: exact in a number, as
\* every integer below 2^53 is in the source's
Integer(i) == Normal(Sign(i), Abs(i), 0)
FNeg(a) == IF a.nan THEN NaN ELSE [a EXCEPT !.m = 0 - a.m]
FAbs(a) == IF a.nan THEN NaN ELSE [a EXCEPT !.m = Abs(a.m)]

\* a + b
FAdd(a, b) ==
  IF a.nan \/ b.nan THEN NaN
  ELSE IF a.m = 0 THEN b
  ELSE IF b.m = 0 THEN a
  ELSE LET hi == IF a.e >= b.e THEN a ELSE b
           lo == IF a.e >= b.e THEN b ELSE a
           gap == hi.e - lo.e
       IN IF gap >= 2 * MantissaBits + 2
            THEN hi   \* lo is below a quarter of hi's last place
            ELSE LET sum == hi.m * Pow2(gap) + lo.m
                 IN Round(Sign(sum), Abs(sum), lo.e)

\* a - b
FSub(a, b) == FAdd(a, FNeg(b))

\* a * b
FMul(a, b) ==
  IF a.nan \/ b.nan THEN NaN
  ELSE Round(Sign(a.m) * Sign(b.m), Abs(a.m) * Abs(b.m), a.e + b.e)

\* a / b for b # 0 (the modelled code guards every division against a zero
\* divisor); the quotient is taken to two bits more than a mantissa, the
\* last of them set when the division leaves a remainder
FDiv(a, b) ==
  IF a.nan \/ b.nan THEN NaN
  ELSE IF a.m = 0 THEN Zero
  ELSE LET s == MantissaBits + 2 + BitLen(Abs(b.m))
           n == Abs(a.m) * Pow2(s)
           q == n \div Abs(b.m)
           sticky == IF n % Abs(b.m) = 0 THEN 0 ELSE 1
       IN Round(Sign(a.m) * Sign(b.m), 2 * q + sticky, a.e - b.e - s - 1)

RECURSIVE ISqrtFrom(_, _, _)
\* the integer square root of n, found bit by bit from bit b down
ISqrtFrom(n, r, b) ==
  IF b < 0 THEN r
  ELSE LET t == r + Pow2(b)
       IN ISqrtFrom(n, IF t * t <= n THEN t ELSE r, b - 1)
ISqrt(n) == ISqrtFrom(n, 0, BitLen(n) \div 2)

\* Math.sqrt(a): NaN for a negative number
FSqrt(a) ==
  IF a.nan \/ a.m < 0 THEN NaN
  ELSE IF a.m = 0 THEN Zero
  ELSE LET odd == a.e % 2 = 1
           m0 == IF odd THEN 2 * a.m ELSE a.m
           e0 == IF odd THEN a.e - 1 ELSE a.e
           s == MantissaBits + 1
           n == m0 * Pow2(2 * s)
           r == ISqrt(n)
           sticky == IF r * r = n THEN 0 ELSE 1
       IN Round(1, 2 * r + sticky, (e0 \div 2) - s - 1)

\* -1, 0, 1 as a < b, a = b, a > b, for two numbers that are not NaN
FCompare(a, b) ==
  IF Sign(a.m) # Sign(b.m) THEN (IF Sign(a.m) < Sign(b.m) THEN -1 ELSE 1)
  ELSE IF a.m = 0 THEN 0
  ELSE LET topA == BitLen(Abs(a.m)) + a.e
           topB == BitLen(Abs(b.m)) + b.e
           low == Min(a.e, b.e)
           magA == Abs(a.m) * Pow2(a.e - low)
           magB == Abs(b.m) * Pow2(b.e - low)
           mag == IF topA # topB THEN (IF topA < topB THEN -1 ELSE 1)
                  ELSE IF magA < magB THEN -1 ELSE IF magA > magB THEN 1 ELSE 0
       IN Sign(a.m) * mag

\* a < b, a > b, a === b: all false when a or b is NaN
FLess(a, b) == ~a.nan /\ ~b.nan /\ FCompare(a, b) = -1
FGreater(a, b) == ~a.nan /\ ~b.nan /\ FCompare(a, b) = 1
FEquals(a, b) == ~a.nan /\ ~b.nan /\ FCompare(a, b) = 0

\* the decimal literal n / d of the source text (0.7 is 7 / 10): the number
\* nearest to it
Literal(n, d) == FDiv(Integer(n), Integer(d))

RECURSIVE FSumFrom(_, _, _)
\* values.reduce((a, b) => a + b, 0), summed left to right from acc
FSumFrom(values, i, acc) ==
  IF i > Len(values) THEN acc
  ELSE FSumFrom(values, i + 1, FAdd(acc, values[i]))
FSum(values) == FSumFrom(values, 1, Zero)

\* ------------------------------------------------ correlation primitives
RECURSIVE CorrelationLoop(_, _, _, _, _, _)
\* for (let i = 0; i < n; i++) { diff1, diff2; numerator += ...; ... }
CorrelationLoop(returns1, returns2, mean1, mean2, i, acc) ==
  IF i > Len(returns1) THEN acc
  ELSE LET diff1 == FSub(returns1[i], mean1)
           diff2 == FSub(returns2[i], mean2)
       IN CorrelationLoop(returns1, returns2, mean1, mean2, i + 1,
            [numerator |-> FAdd(acc.numerator, FMul(diff1, diff2)),
             sum1Sq |-> FAdd(acc.sum1Sq, FMul(diff1, diff1)),
             sum2Sq |-> FAdd(acc.sum2Sq, FMul(diff2, diff2))])

\* calculateCorrelation(returns1, returns2): Pearson from the deviations
\* of the two series from their means
CalculateCorrelation(returns1, returns2) ==
  IF Len(returns1) # Len(returns2) \/ Len(returns1) = 0 THEN Zero
  ELSE LET n == Integer(Len(returns1))
           mean1 == FDiv(FSum(returns1), n)
           mean2 == FDiv(FSum(returns2), n)
           acc == CorrelationLoop(returns1, returns2, mean1, mean2, 1,
                                  [numerator |-> Zero, sum1Sq |-> Zero, sum2Sq |-> Zero])
           denominator == FSqrt(FMul(acc.sum1Sq, acc.sum2Sq))
       IN IF FEquals(denominator, Zero) THEN Zero
          ELSE FDiv(acc.numerator, denominator)

RECURSIVE SumProducts(_, _, _, _)
\* x.reduce((sum, xi, i) => sum + xi * y[i], 0)
SumProducts(x, y, i, sum) ==
  IF i > Len(x) THEN sum
  ELSE SumProducts(x, y, i + 1, FAdd(sum, FMul(x[i], y[i])))

\* pearsonCorrelation(x, y): Pearson from the sums of the two series, of
\* their squares and of their products
PearsonCorrelation(x, y) ==
  IF Len(x) # Len(y) \/ Len(x) = 0 THEN Zero
  ELSE LET n == Integer(Len(x))
           sumX == FSum(x)
           sumY == FSum(y)
           sumXY == SumProducts(x, y, 1, Zero)
           sumX2 == SumProducts(x, x, 1, Zero)
           sumY2 == SumProducts(y, y, 1, Zero)
           numerator == FSub(FMul(n, sumXY), FMul(sumX, sumY))
           denominator == FSqrt(FMul(FSub(FMul(n, sumX2), FMul(sumX, sumX)),
                                     FSub(FMul(n, sumY2), FMul(sumY, sumY))))
       IN IF FEquals(denominator, Zero) THEN Zero
          ELSE FDiv(numerator, denominator)

RECURSIVE SortIndexed(_, _)
\* indexed.sort((a, b) => a.value - b.value): the indices of arr by value,
\* equal values in index order (the sort is stable)
SortIndexed(arr, rest) ==
  IF rest = {} THEN <<>>
  ELSE LET k == CHOOSE i \in rest : \A j \in rest :
                  \/ FCompare(arr[i], arr[j]) = -1
                  \/ FCompare(arr[i], arr[j]) = 0 /\ i <= j
       IN <<k>> \o SortIndexed(arr, rest \ {k})

RECURSIVE TieEnd(_, _, _, _)
\* while (j < indexed.length && indexed[j].value === indexed[i].value) j++
\* with i and j counted from 0 as in the source
TieEnd(arr, indexed, i, j) ==
  IF j < Len(indexed) /\ FEquals(arr[indexed[j + 1]], arr[indexed[i + 1]])
    THEN TieEnd(arr, indexed, i, j + 1)
    ELSE j

\* variant: a tie group takes the rank of its first position
AvgRankFirst(i, j) == Integer(i + 1)

\* const avgRank = (i + j - 1) / 2 + 1
AvgRank(i, j) == FAdd(FDiv(Integer(i + j - 1), Integer(2)), Integer(1))

RECURSIVE RanksLoop(_, _, _, _)
\* while (i < indexed.length) { j; avgRank; ranks[indexed[k].index] = avgRank; i = j }
RanksLoop(arr, indexed, i, ranks) ==
  IF i >= Len(indexed) THEN ranks
  ELSE LET j == TieEnd(arr, indexed, i, i)
           avgRank == AvgRank(i, j)
       IN RanksLoop(arr, indexed, j,
            [k \in DOMAIN ranks |->
               IF \E p \in (i + 1)..j : indexed[p] = k THEN avgRank ELSE ranks[k]])

\* getRanks(arr)
GetRanks(arr) ==
  RanksLoop(arr, SortIndexed(arr, DOMAIN arr), 0, [k \in DOMAIN arr |-> Zero])

\* spearmanCorrelation(x, y)
SpearmanCorrelation(x, y) ==
  IF Len(x) # Len(y) \/ Len(x) = 0 THEN Zero
  ELSE PearsonCorrelation(GetRanks(x), GetRanks(y))

\* --------------------------------- calculateEquityCurveCorrelationMatrix
\* Two implementations share the name: the one that takes the entries by
\* strategy (part_000) and the one that takes one flat entry list and a
\* method (equity-curve-correlation.ts); the latter is suffixed Flat here.

\* the strategy names the model uses, in alphabetical order
Alphabetical == <<"A", "B", "C", "D", "E", "F", "G", "H">>
NameRank(name) == CHOOSE i \in DOMAIN Alphabetical : Alphabetical[i] = name

RECURSIVE SortNames(_)
\* Object.keys(...).sort()
SortNames(names) ==
  IF names = {} THEN <<>>
  ELSE LET first == CHOOSE n \in names : \A o \in names : NameRank(n) <= NameRank(o)
       IN <<first>> \o SortNames(names \ {first})

\* the dailyReturnPct of a strategy's entry on a date
ReturnOn(strategyEntries, d) == (CHOOSE e \in strategyEntries : e.date = d).dailyReturnPct
HasDate(strategyEntries, d) == \E e \in strategyEntries : e.date = d

\* alignEquityCurvesByDate(entriesByStrategy): every date of any strategy;
\* a return is divided by 100, a missing one is 0
AlignEquityCurvesByDate(entriesByStrategy) ==
  LET strategies == DOMAIN entriesByStrategy
      dates == SortAsc(UNION {{e.date : e \in entriesByStrategy[s]} : s \in strategies})
  IN [dates |-> dates,
      alignedReturns |->
        [s \in strategies |->
           [i \in 1..Len(dates) |->
              IF HasDate(entriesByStrategy[s], dates[i])
                THEN FDiv(ReturnOn(entriesByStrategy[s], dates[i]), Integer(100))
                ELSE Zero]]]

\* variant: the diagonal computed like every other entry
MatrixEntryComputed(alignedReturns, strategies, i, j) ==
  CalculateCorrelation(alignedReturns[strategies[i]], alignedReturns[strategies[j]])

\* correlationData[i][j] of calculateEquityCurveCorrelationMatrix(entriesByStrategy)
MatrixEntry(alignedReturns, strategies, i, j) ==
  IF i = j THEN Integer(1)
  ELSE CalculateCorrelation(alignedReturns[strategies[i]], alignedReturns[strategies[j]])

\* calculateEquityCurveCorrelationMatrix(entriesByStrategy)
CalculateEquityCurveCorrelationMatrix(entriesByStrategy) ==
  LET strategies == SortNames(DOMAIN entriesByStrategy)
      n == Len(strategies)
      aligned == AlignEquityCurvesByDate(entriesByStrategy)
  IN IF n = 0
       THEN [strategies |-> <<>>, correlationData |-> <<>>, dates |-> <<>>,
             alignedReturns |-> EmptyFn]
       ELSE [strategies |-> strategies,
             correlationData |->
               [i \in 1..n |-> [j \in 1..n |->
                  MatrixEntry(aligned.alignedReturns, strategies, i, j)]],
             dates |-> aligned.dates,
             alignedReturns |-> aligned.alignedReturns]

\* variant: every date of any strategy, a missing return read as 0
AlignEquityCurvesByDateFlatUnion(flatEntries) ==
  LET strategies == {e.strategyName : e \in flatEntries}
      byStrategy == [s \in strategies |-> {e \in flatEntries : e.strategyName = s}]
      allDates == SortAsc({e.date : e \in flatEntries})
  IN [dates |-> allDates,
      alignedReturns |->
        [s \in strategies |->
           [i \in 1..Len(allDates) |->
              IF HasDate(byStrategy[s], allDates[i])
                THEN ReturnOn(byStrategy[s], allDates[i]) ELSE Zero]]]

\* alignEquityCurvesByDate(entries): the entries grouped by strategyName,
\* only the dates every strategy has; `|| 0` turns no return of the model's
\* into another value
AlignEquityCurvesByDateFlat(flatEntries) ==
  LET strategies == {e.strategyName : e \in flatEntries}
      byStrategy == [s \in strategies |-> {e \in flatEntries : e.strategyName = s}]
      allDates == {e.date : e \in flatEntries}
      commonDates == SortAsc({d \in allDates :
                                \A s \in strategies : HasDate(byStrategy[s], d)})
  IN [dates |-> commonDates,
      alignedReturns |->
        [s \in strategies |->
           [i \in 1..Len(commonDates) |-> ReturnOn(byStrategy[s], commonDates[i])]]]

\* correlationData[i][j] of calculateEquityCurveCorrelationMatrix(entries, method)
MatrixEntryFlat(alignedReturns, strategies, method, i, j) ==
  IF i = j THEN Integer(1)
  ELSE IF method = "pearson"
    THEN PearsonCorrelation(alignedReturns[strategies[i]], alignedReturns[strategies[j]])
    ELSE SpearmanCorrelation(alignedReturns[strategies[i]], alignedReturns[strategies[j]])

\* calculateEquityCurveCorrelationMatrix(entries, method)
CalculateEquityCurveCorrelationMatrixFlat(flatEntries, method) ==
  LET aligned == AlignEquityCurvesByDateFlat(flatEntries)
      strategies == SortNames(DOMAIN aligned.alignedReturns)
      n == Len(strategies)
  IN [strategies |-> strategies,
      correlationData |->
        [i \in 1..n |-> [j \in 1..n |->
           MatrixEntryFlat(aligned.alignedReturns, strategies, method, i, j)]],
      dates |-> aligned.dates,
      alignedReturns |-> aligned.alignedReturns]

\* ------------------------------ calculateEquityCurveCorrelationAnalytics
PairLimit == 10   \* .slice(0, 10)

\* the analytics of a matrix of fewer than two strategies
TrivialAnalytics(n) ==
  [avgCorrelation |-> Zero, maxCorrelation |-> Zero, minCorrelation |-> Zero,
   diversificationScore |-> Integer(1),
   highlyCorrelatedPairs |-> <<>>, uncorrelatedPairs |-> <<>>,
   strongest |-> [value |-> Zero, pair |-> <<"", "">>],
   weakest |-> [value |-> Zero, pair |-> <<"", "">>],
   averageCorrelation |-> Zero, strategyCount |-> n]

RECURSIVE CollectPairs(_, _, _, _)
\* for (i = 0; i < n; i++) for (j = i + 1; j < n; j++) pairs.push({...})
CollectPairs(matrix, i, j, pairs) ==
  LET n == Len(matrix.strategies)
  IN IF i > n THEN pairs
     ELSE IF j > n THEN CollectPairs(matrix, i + 1, i + 2, pairs)
     ELSE CollectPairs(matrix, i, j + 1,
            Append(pairs, [strategy1 |-> matrix.strategies[i],
                           strategy2 |-> matrix.strategies[j],
                           correlation |-> matrix.correlationData[i][j]]))

\* if (corr > strongest.value) strongest = { value: corr, pair: [...] }
StrongestStep(strongest, p) ==
  IF FGreater(p.correlation, strongest.value)
    THEN [value |-> p.correlation, pair |-> <<p.strategy1, p.strategy2>>]
    ELSE strongest

\* if (corr < weakest.value) weakest = { value: corr, pair: [...] }
WeakestStep(weakest, p) ==
  IF FLess(p.correlation, weakest.value)
    THEN [value |-> p.correlation, pair |-> <<p.strategy1, p.strategy2>>]
    ELSE weakest

RECURSIVE StrongestScan(_, _, _)
\* strongest after the loop, from { value: -1, pair: ["", ""] }
StrongestScan(pairs, k, strongest) ==
  IF k > Len(pairs) THEN strongest
  ELSE StrongestScan(pairs, k + 1, StrongestStep(strongest, pairs[k]))

RECURSIVE WeakestScan(_, _, _)
\* weakest after the loop, from { value: 1, pair: ["", ""] }
WeakestScan(pairs, k, weakest) ==
  IF k > Len(pairs) THEN weakest
  ELSE WeakestScan(pairs, k + 1, WeakestStep(weakest, pairs[k]))

RECURSIVE MaxOf(_, _, _)
\* Math.max(...correlations) of a non-empty list without NaN
MaxOf(correlations, k, best) ==
  IF k > Len(correlations) THEN best
  ELSE MaxOf(correlations, k + 1,
             IF FGreater(correlations[k], best) THEN correlations[k] ELSE best)

RECURSIVE MinOf(_, _, _)
\* Math.min(...correlations) of a non-empty list without NaN
MinOf(correlations, k, best) ==
  IF k > Len(correlations) THEN best
  ELSE MinOf(correlations, k + 1,
             IF FLess(correlations[k], best) THEN correlations[k] ELSE best)

\* variant: the average itself as the score
DiversificationScoreDirect(avgCorrelation) ==
  IF avgCorrelation.nan THEN NaN
  ELSE IF FGreater(avgCorrelation, Zero) THEN avgCorrelation ELSE Zero

\* Math.max(0, 1 - avgCorrelation)
DiversificationScore(avgCorrelation) ==
  LET inverse == FSub(Integer(1), avgCorrelation)
  IN IF inverse.nan THEN NaN
     ELSE IF FGreater(inverse, Zero) THEN inverse ELSE Zero

\* the literals 0.7 and 0.3
HighThreshold == Literal(7, 10)
LowThreshold == Literal(3, 10)

\* pairs.filter(p => Math.abs(p.correlation) > 0.7)
IsHighlyCorrelated(p) == FGreater(FAbs(p.correlation), HighThreshold)
\* pairs.filter(p => Math.abs(p.correlation) < 0.3)
IsUncorrelated(p) == FLess(FAbs(p.correlation), LowThreshold)

RECURSIVE InsertByAbs(_, _, _)
\* p put into a list sorted by |correlation| (descending, or ascending),
\* after the elements it ties with: the sort is stable
InsertByAbs(sorted, p, descending) ==
  IF sorted = <<>> THEN <<p>>
  ELSE LET c == FCompare(FAbs(p.correlation), FAbs(Head(sorted).correlation))
       IN IF (descending /\ c = 1) \/ (~descending /\ c = -1)
            THEN <<p>> \o sorted
            ELSE <<Head(sorted)>> \o InsertByAbs(Tail(sorted), p, descending)

\* variant: the list left in the order of the loop
SortByAbsNone(list, k, sorted, descending) == list

RECURSIVE SortByAbs(_, _, _, _)
\* .sort((a, b) => Math.abs(b.correlation) - Math.abs(a.correlation)), or the
\* ascending comparator: list[k..] inserted into sorted
SortByAbs(list, k, sorted, descending) ==
  IF k > Len(list) THEN sorted
  ELSE SortByAbs(list, k + 1, InsertByAbs(sorted, list[k], descending), descending)

\* .slice(0, 10)
Slice(list) == SubSeq(list, 1, Min(Len(list), PairLimit))

\* the filter of highlyCorrelatedPairs
FilterHighlyCorrelated(pairs) ==
  LET keep == SortAsc({k \in DOMAIN pairs : IsHighlyCorrelated(pairs[k])})
  IN [x \in 1..Len(keep) |-> pairs[keep[x]]]

\* the filter of uncorrelatedPairs
FilterUncorrelated(pairs) ==
  LET keep == SortAsc({k \in DOMAIN pairs : IsUncorrelated(pairs[k])})
  IN [x \in 1..Len(keep) |-> pairs[keep[x]]]

\* calculateEquityCurveCorrelationAnalytics(matrix)
CalculateEquityCurveCorrelationAnalytics(matrix) ==
  LET n == Len(matrix.strategies)
      pairs == CollectPairs(matrix, 1, 2, <<>>)
      correlations == [k \in DOMAIN pairs |-> pairs[k].correlation]
      avgCorrelation == FDiv(FSum(correlations), Integer(Len(correlations)))
  IN IF n < 2 THEN TrivialAnalytics(n)
     ELSE [avgCorrelation |-> avgCorrelation,
           maxCorrelation |-> MaxOf(correlations, 2, correlations[1]),
           minCorrelation |-> MinOf(correlations, 2, correlations[1]),
           diversificationScore |-> DiversificationScore(avgCorrelation),
           highlyCorrelatedPairs |->
             Slice(SortByAbs(FilterHighlyCorrelated(pairs), 1, <<>>, TRUE)),
           uncorrelatedPairs |->
             Slice(SortByAbs(FilterUncorrelated(pairs), 1, <<>>, FALSE)),
           strongest |-> StrongestScan(pairs, 1,
                           [value |-> Integer(-1), pair |-> <<"", "">>]),
           weakest |-> WeakestScan(pairs, 1,
                         [value |-> Integer(1), pair |-> <<"", "">>]),
           averageCorrelation |-> avgCorrelation,
           strategyCount |-> n]

\* ------------------------------------------------------------------ state
\* -------------------------------------- calculateEquityCurveSPYCorrelations
RECURSIVE BetaLoop(_, _, _, _, _, _)
\* the loop of calculateBeta: covariance and benchmarkVariance
BetaLoop(strategyReturns, benchmarkReturns, meanStrategy, meanBenchmark, i, acc) ==
  IF i > Len(strategyReturns) THEN acc
  ELSE LET strategyDiff == FSub(strategyReturns[i], meanStrategy)
           benchmarkDiff == FSub(benchmarkReturns[i], meanBenchmark)
       IN BetaLoop(strategyReturns, benchmarkReturns, meanStrategy, meanBenchmark, i + 1,
            [covariance |-> FAdd(acc.covariance, FMul(strategyDiff, benchmarkDiff)),
             benchmarkVariance |->
               FAdd(acc.benchmarkVariance, FMul(benchmarkDiff, benchmarkDiff))])

\* calculateBeta(strategyReturns, benchmarkReturns)
CalculateBeta(strategyReturns, benchmarkReturns) ==
  IF Len(strategyReturns) # Len(benchmarkReturns) \/ Len(strategyReturns) = 0 THEN Zero
  ELSE LET n == Integer(Len(strategyReturns))
           acc == BetaLoop(strategyReturns, benchmarkReturns,
                           FDiv(FSum(strategyReturns), n), FDiv(FSum(benchmarkReturns), n),
                           1, [covariance |-> Zero, benchmarkVariance |-> Zero])
       IN IF FEquals(acc.benchmarkVariance, Zero) THEN Zero
          ELSE FDiv(acc.covariance, acc.benchmarkVariance)

\* Number(std(values, 'uncorrected')) of a non-empty list: the square root
\* of the mean squared deviation from the mean
StdUncorrected(values) ==
  LET n == Integer(Len(values))
      mean == FDiv(FSum(values), n)
      squares == [i \in DOMAIN values |->
                    FMul(FSub(values[i], mean), FSub(values[i], mean))]
  IN FSqrt(FDiv(FSum(squares), n))

\* the result of calculateSPYCorrelation for vectors it cannot use
ZeroSPYResult ==
  [correlation |-> Zero, beta |-> Zero, alpha |-> Zero, rSquared |-> Zero,
   trackingError |-> Zero]

\* the riskFreeRate default 0.05, and the trading days of a year
RiskFreeRate == Literal(5, 100)
TradingDays == Integer(252)

\* variant: the vectors are not looked at before they are used
CalculateSPYCorrelationUnguarded(strategyReturns, spyReturns, riskFreeRate) ==
  [correlation |-> NaN, beta |-> NaN, alpha |-> NaN, rSquared |-> NaN,
   trackingError |-> NaN]

\* calculateSPYCorrelation(strategyReturns, spyReturns, riskFreeRate)
CalculateSPYCorrelation(strategyReturns, spyReturns, riskFreeRate) ==
  IF Len(strategyReturns) # Len(spyReturns) \/ Len(strategyReturns) = 0
    THEN ZeroSPYResult
    ELSE LET corr == CalculateCorrelation(strategyReturns, spyReturns)
             beta == CalculateBeta(strategyReturns, spyReturns)
             n == Integer(Len(strategyReturns))
             avgStrategyReturn == FDiv(FSum(strategyReturns), n)
             avgMarketReturn == FDiv(FSum(spyReturns), n)
             dailyRiskFreeRate == FDiv(riskFreeRate, TradingDays)
             dailyAlpha ==
               FSub(avgStrategyReturn,
                    FAdd(dailyRiskFreeRate,
                         FMul(beta, FSub(avgMarketReturn, dailyRiskFreeRate))))
             returnDifferences ==
               [i \in DOMAIN strategyReturns |-> FSub(strategyReturns[i], spyReturns[i])]
         IN [correlation |-> corr,
             beta |-> beta,
             alpha |-> FMul(dailyAlpha, TradingDays),
             rSquared |-> FMul(corr, corr),
             trackingError |-> FMul(StdUncorrected(returnDifferences), FSqrt(TradingDays))]

\* the dates of a strategy's entries that spyReturnMap has, in the order of
\* the entries
DatesWithSPY(strategyEntries, spy) ==
  SortAsc({e.date : e \in {x \in strategyEntries : HasDate(spy, x.date)}})

\* calculateEquityCurveSPYCorrelations(entriesByStrategy, spyEntries,
\* riskFreeRate): per strategy the two aligned vectors and the result of
\* calculateSPYCorrelation on them
CalculateEquityCurveSPYCorrelations(entriesByStrategy, spy, riskFreeRate) ==
  [strategyName \in DOMAIN entriesByStrategy |->
     LET dates == DatesWithSPY(entriesByStrategy[strategyName], spy)
         alignedStrategyReturns ==
           [i \in 1..Len(dates) |->
              FDiv(ReturnOn(entriesByStrategy[strategyName], dates[i]), Integer(100))]
         alignedSPYReturns ==
           [i \in 1..Len(dates) |-> FDiv(ReturnOn(spy, dates[i]), Integer(100))]
     IN [alignedStrategyReturns |-> alignedStrategyReturns,
         alignedSPYReturns |-> alignedSPYReturns,
         result |-> CalculateSPYCorrelation(alignedStrategyReturns, alignedSPYReturns,
                                            riskFreeRate)]]

TotalEntries == SumOver([n \in DOMAIN componentCurves |-> Cardinality(componentCurves[n])],
                        DOMAIN componentCurves)

Init ==
  /\ pc = "idle"
  /\ componentCurves = EmptyFn
  /\ alignment = "none"
  /\ alignedDates = <<>>
  /\ warnings = <<>>
  /\ combinedEquityCurve = <<>>
  /\ dateRange = None
  /\ error = NoError
  /\ entries = <<>>
  /\ portfolioStats = None
  /\ chartData = None
  /\ seriesName = ""
  /\ seriesX = <<>>
  /\ seriesY = <<>>
  /\ correlation = None
  /\ rankArr = <<>>
  /\ rankResult = None
  /\ strategyCurves = EmptyFn
  /\ matrixMethod = "none"
  /\ matrixResult = None
  /\ correlationMatrix = None
  /\ analytics = None
  /\ spyEntries = {}
  /\ spyResults = None
  /\ dbBlocks = EmptyFn
  /\ dbRecords = [s \in Stores |-> {}]
  /\ blocksCreated = 0
  /\ lastCall = NoCall
  /\ storeData = None
  /\ isLoading = FALSE
  /\ storeError = NoError
  /\ storeFilters = FALSE
  /\ pendingFetches = {}
  /\ pendingFilters = {}

\* the caller adds a component (an equity-curve block) to the request
AddComponent ==
  /\ pc \in {"idle", "components"}
  /\ Cardinality(DOMAIN componentCurves) < MaxComponents
  /\ Cardinality(DOMAIN componentCurves) < Len(ComponentNames)
  /\ LET name == ComponentNames[Cardinality(DOMAIN componentCurves) + 1]
     IN componentCurves' = [n \in DOMAIN componentCurves \cup {name} |->
                              IF n = name THEN {} ELSE componentCurves[n]]
  /\ pc' = "components"
  /\ UNCHANGED <<alignment, alignedDates, warnings, combinedEquityCurve, dateRange,
                 error, entries, portfolioStats, chartData, seriesName>>
  /\ UNCHANGED corrVars
  /\ UNCHANGED restVars

\* the caller adds one entry (one per date) to a component's equityCurveEntries
AddComponentEntry ==
  /\ pc = "components"
  /\ TotalEntries < MaxEntries
  /\ \E name \in DOMAIN componentCurves, d \in Dates, k \in EntryKinds :
       /\ \A e \in componentCurves[name] : e.date # d
       /\ componentCurves' = [componentCurves EXCEPT ![name] =
             @ \cup {[date |-> d, accountValue |-> k.accountValue,
                      marginReq |-> k.marginReq]}]
  /\ UNCHANGED <<pc, alignment, alignedDates, warnings, combinedEquityCurve, dateRange,
                 error, entries, portfolioStats, chartData, seriesName>>
  /\ UNCHANGED corrVars
  /\ UNCHANGED restVars

\* combineSuperBlock(components, alignment)
CombineSuperBlock ==
  /\ pc \in {"idle", "components"}
  /\ \E strategy \in Alignments :
       LET r == CombineSuperBlockResult(componentCurves, strategy)
       IN /\ alignment' = strategy
          /\ alignedDates' = r.alignedDates
          /\ warnings' = r.warnings
          /\ combinedEquityCurve' = r.combinedEquityCurve
          /\ dateRange' = r.dateRange
          /\ error' = r.error
          /\ pc' = IF r.raised THEN "raised" ELSE "combined"
  /\ UNCHANGED <<componentCurves, entries, portfolioStats, chartData, seriesName>>
  /\ UNCHANGED corrVars
  /\ UNCHANGED restVars

\* the caller appends one entry (one per date) to the list; the first
\* MaxShuffle entries come in any date order, the later ones in date order
AddEntry ==
  /\ pc \in {"idle", "entries"}
  /\ Len(entries) < MaxLen
  /\ \E d \in StatDates, r \in DailyReturns, v \in AccountValues :
       /\ <<r, v>> \in EntrySamples
       /\ \A i \in 1..Len(entries) : entries[i].date # d
       /\ Len(entries) < MaxShuffle \/ \A i \in 1..Len(entries) : entries[i].date < d
       /\ entries' = Append(entries, [date |-> d, dailyReturnPct |-> r, accountValue |-> v])
  /\ pc' = "entries"
  /\ UNCHANGED <<componentCurves, alignment, alignedDates, warnings, combinedEquityCurve,
                 dateRange, error, portfolioStats, chartData, seriesName>>
  /\ UNCHANGED corrVars
  /\ UNCHANGED restVars

\* the strategyName of an upload's entries: none, or the one of the series
SeriesNames == {"", "S"}

\* the entries as the caller hands them over, each with the strategyName
Named(es, name) ==
  [i \in 1..Len(es) |->
     [date |-> es[i].date, dailyReturnPct |-> es[i].dailyReturnPct,
      accountValue |-> es[i].accountValue, strategyName |-> name]]

\* buildEquityCurveSnapshot(entries), the entries with or without a
\* strategyName
BuildEquityCurveSnapshot ==
  /\ pc \in {"idle", "entries"}
  /\ \E name \in SeriesNames :
       /\ seriesName' = name
       /\ portfolioStats' = CalculateEquityCurveStats(Named(entries, name))
       /\ chartData' = BuildEquityCurveChartData(Named(entries, name))
  /\ pc' = "snapshot"
  /\ UNCHANGED <<componentCurves, alignment, alignedDates, warnings, combinedEquityCurve,
                 dateRange, error, entries>>
  /\ UNCHANGED corrVars
  /\ UNCHANGED restVars

Next ==
  \/ AddComponent
  \/ AddComponentEntry
  \/ CombineSuperBlock
  \/ AddEntry
  \/ BuildEquityCurveSnapshot

Spec == Init /\ [][Next]_vars

\* ------------------------------------------ state: entries in any order
MaxPermuted == 3      \* entries of a list that comes in any date order
PermutedDates == 1..MaxPermuted
PermutedSamples == {<<1, 2>>, <<0, 0>>, <<-1, -1>>}

\* the caller appends one entry (one per date) to the list, whatever its date
AddUnsortedEntry ==
  /\ pc \in {"idle", "entries"}
  /\ Len(entries) < MaxPermuted
  /\ \E d \in PermutedDates, s \in PermutedSamples :
       /\ \A i \in 1..Len(entries) : entries[i].date # d
       /\ entries' = Append(entries, [date |-> d, dailyReturnPct |-> s[1], accountValue |-> s[2]])
  /\ pc' = "entries"
  /\ UNCHANGED <<componentCurves, alignment, alignedDates, warnings, combinedEquityCurve,
                 dateRange, error, portfolioStats, chartData, seriesName>>
  /\ UNCHANGED corrVars
  /\ UNCHANGED restVars

PermutationNext == AddUnsortedEntry \/ BuildEquityCurveSnapshot

PermutationSpec == Init /\ [][PermutationNext]_vars

\* ------------------------------------------ state: correlation primitives
MaxVec == 3           \* length of the series handed to the correlation primitives
MaxRankLen == 4       \* length of the array handed to getRanks
\* the values a series is drawn from
SeriesValues == {Integer(0), Integer(1), Integer(7)}

\* the caller extends the first series
PushX ==
  /\ pc \in {"idle", "series"}
  /\ Len(seriesX) < MaxVec
  /\ \E v \in SeriesValues : seriesX' = Append(seriesX, v)
  /\ pc' = "series"
  /\ UNCHANGED <<blockVars, matrixVars, analyticsVars, seriesY, correlation, rankArr, rankResult>>
  /\ UNCHANGED restVars

\* the caller extends the second series
PushY ==
  /\ pc \in {"idle", "series"}
  /\ Len(seriesY) < MaxVec
  /\ \E v \in SeriesValues : seriesY' = Append(seriesY, v)
  /\ pc' = "series"
  /\ UNCHANGED <<blockVars, matrixVars, analyticsVars, seriesX, correlation, rankArr, rankResult>>
  /\ UNCHANGED restVars

\* the three correlation primitives, each called on (seriesX, seriesY)
Correlate ==
  /\ pc \in {"idle", "series"}
  /\ correlation' = [calculateCorrelation |-> CalculateCorrelation(seriesX, seriesY),
                     pearsonCorrelation |-> PearsonCorrelation(seriesX, seriesY),
                     spearmanCorrelation |-> SpearmanCorrelation(seriesX, seriesY)]
  /\ pc' = "correlated"
  /\ UNCHANGED <<blockVars, matrixVars, analyticsVars, seriesX, seriesY, rankArr, rankResult>>
  /\ UNCHANGED restVars

PrimitiveNext == PushX \/ PushY \/ Correlate

PrimitiveSpec == Init /\ [][PrimitiveNext]_vars

\* the caller extends the array to rank
PushRankValue ==
  /\ pc \in {"idle", "array"}
  /\ Len(rankArr) < MaxRankLen
  /\ \E v \in SeriesValues : rankArr' = Append(rankArr, v)
  /\ pc' = "array"
  /\ UNCHANGED <<blockVars, matrixVars, analyticsVars, seriesX, seriesY, correlation, rankResult>>
  /\ UNCHANGED restVars

\* getRanks(rankArr)
RankArray ==
  /\ pc \in {"idle", "array"}
  /\ rankResult' = GetRanks(rankArr)
  /\ pc' = "ranked"
  /\ UNCHANGED <<blockVars, matrixVars, analyticsVars, seriesX, seriesY, correlation, rankArr>>
  /\ UNCHANGED restVars

RanksNext == PushRankValue \/ RankArray

RanksSpec == Init /\ [][RanksNext]_vars

\* ------------------------------------------- state: correlation matrix
MaxStrategies == 3      \* number of strategies handed to the matrix functions
MaxMatrixEntries == 4   \* total number of entries over all strategies
\* strategy names in the order the caller adds them (B before A: the
\* insertion order of the keys differs from their sorted order)
StrategyNames == <<"B", "A", "C", "D">>
MatrixDates == {1, 2}
\* the dailyReturnPct values of the strategies' entries
MatrixReturns == {Integer(1), Integer(7)}
Methods == {"pearson", "spearman"}

TotalStrategyEntries ==
  SumOver([n \in DOMAIN strategyCurves |-> Cardinality(strategyCurves[n])],
          DOMAIN strategyCurves)

\* the flat entry list of the same curves: each entry with its strategyName
FlatEntries(curves) ==
  UNION {{[strategyName |-> n, date |-> e.date, dailyReturnPct |-> e.dailyReturnPct] :
            e \in curves[n]} : n \in DOMAIN curves}

\* the caller adds a strategy, so far without entries
AddStrategy ==
  /\ pc \in {"idle", "strategies"}
  /\ Cardinality(DOMAIN strategyCurves) < MaxStrategies
  /\ Cardinality(DOMAIN strategyCurves) < Len(StrategyNames)
  /\ LET name == StrategyNames[Cardinality(DOMAIN strategyCurves) + 1]
     IN strategyCurves' = [n \in DOMAIN strategyCurves \cup {name} |->
                             IF n = name THEN {} ELSE strategyCurves[n]]
  /\ pc' = "strategies"
  /\ UNCHANGED <<blockVars, primitiveVars, analyticsVars, matrixMethod, matrixResult>>
  /\ UNCHANGED restVars

\* the caller adds one entry (one per date) to a strategy's curve
AddStrategyEntry ==
  /\ pc = "strategies"
  /\ TotalStrategyEntries < MaxMatrixEntries
  /\ \E name \in DOMAIN strategyCurves, d \in MatrixDates, r \in MatrixReturns :
       /\ ~HasDate(strategyCurves[name], d)
       /\ strategyCurves' = [strategyCurves EXCEPT ![name] =
             @ \cup {[date |-> d, dailyReturnPct |-> r]}]
  /\ UNCHANGED <<pc, blockVars, primitiveVars, analyticsVars, matrixMethod, matrixResult>>
  /\ UNCHANGED restVars

\* both matrix functions called on the same curves: the first on the curves
\* by strategy, the second on their flat entry list with a method
CalculateMatrices ==
  /\ pc \in {"idle", "strategies"}
  /\ \E m \in Methods :
       /\ matrixMethod' = m
       /\ matrixResult' =
            [byStrategy |-> CalculateEquityCurveCorrelationMatrix(strategyCurves),
             flat |-> CalculateEquityCurveCorrelationMatrixFlat(FlatEntries(strategyCurves), m)]
  /\ pc' = "matrix"
  /\ UNCHANGED <<blockVars, primitiveVars, analyticsVars, strategyCurves>>
  /\ UNCHANGED restVars

MatrixNext == AddStrategy \/ AddStrategyEntry \/ CalculateMatrices

MatrixSpec == Init /\ [][MatrixNext]_vars

\* ---------------------------------------- state: benchmark correlation
MaxSpyEntries == 2      \* number of entries of the benchmark
\* the benchmark's dates: one the strategies can have, one they cannot
SpyDates == {2, 3}

\* the caller adds one entry (one per date) to the benchmark's curve
AddSpyEntry ==
  /\ pc \in {"idle", "strategies"}
  /\ Cardinality(spyEntries) < MaxSpyEntries
  /\ \E d \in SpyDates, r \in MatrixReturns :
       /\ ~HasDate(spyEntries, d)
       /\ spyEntries' = spyEntries \cup {[date |-> d, dailyReturnPct |-> r]}
  /\ pc' = "strategies"
  /\ UNCHANGED <<blockVars, corrVars, spyResults, dbVars, storeVars>>

\* calculateEquityCurveSPYCorrelations(strategyCurves, spyEntries)
CalculateSPYCorrelations ==
  /\ pc \in {"idle", "strategies"}
  /\ spyResults' = CalculateEquityCurveSPYCorrelations(strategyCurves, spyEntries,
                                                       RiskFreeRate)
  /\ pc' = "benchmarked"
  /\ UNCHANGED <<blockVars, corrVars, spyEntries, dbVars, storeVars>>

BenchmarkNext == AddStrategy \/ AddStrategyEntry \/ AddSpyEntry \/ CalculateSPYCorrelations

BenchmarkSpec == Init /\ [][BenchmarkNext]_vars

\* ---------------------------------------- state: correlation analytics
MaxAnalyticsStrategies == 6   \* size of the matrix handed to the analytics
MaxOverrides == 1             \* entries of that matrix that differ from the others
\* the correlations a matrix is built from: -1, -0.8, 0, 0.01, 0.3, 0.7, 1
Levels == {Integer(-1), Literal(-8, 10), Zero, Literal(1, 100), Literal(3, 10),
           Literal(7, 10), Integer(1)}

\* the strategy pairs {i, j} of an n x n matrix
PairsOf(n) == {{i, j} : i, j \in 1..n} \ {{i} : i \in 1..n}
\* the sets of at most MaxOverrides pairs
OverrideSets(n) ==
  UNION {{{p[x] : x \in 1..k} : p \in [1..k -> PairsOf(n)]} : k \in 0..MaxOverrides}

\* a correlation matrix of n strategies: unit diagonal, symmetric, the
\* pairs of S at one correlation and every other pair at another
MatrixOf(n, base, other, S) ==
  [strategies |-> SubSeq(Alphabetical, 1, n),
   correlationData |->
     [i \in 1..n |-> [j \in 1..n |->
        IF i = j THEN Integer(1) ELSE IF {i, j} \in S THEN other ELSE base]]]

\* the caller has a correlation matrix
ChooseMatrix ==
  /\ pc = "idle"
  /\ \E n \in 0..MaxAnalyticsStrategies :
       \E S \in OverrideSets(n), base \in Levels, other \in Levels :
         correlationMatrix' = MatrixOf(n, base, other, S)
  /\ pc' = "chosen"
  /\ UNCHANGED <<blockVars, primitiveVars, matrixVars, analytics>>
  /\ UNCHANGED restVars

\* calculateEquityCurveCorrelationAnalytics(correlationMatrix)
Analyze ==
  /\ pc = "chosen"
  /\ analytics' = CalculateEquityCurveCorrelationAnalytics(correlationMatrix)
  /\ pc' = "analyzed"
  /\ UNCHANGED <<blockVars, primitiveVars, matrixVars, correlationMatrix>>
  /\ UNCHANGED restVars

AnalyticsNext == ChooseMatrix \/ Analyze

AnalyticsSpec == Init /\ [][AnalyticsNext]_vars

\* ------------------------------------------------ state: blocks database
MaxBlocks == 2        \* blocks createBlock stores in one run
BlockIds == 1..MaxBlocks

\* the record a call of the blocks database leaves in lastCall
Call(op, blockId, raised, puts) ==
  [op |-> op, blockId |-> blockId, raised |-> raised, puts |-> puts]

\* createBlock(blockData): a block of a fresh id, trade-based or generic
\* (equity curves), with the isActive of blockData
CreateBlock ==
  /\ pc \in {"idle", "app"}
  /\ blocksCreated < MaxBlocks
  /\ \E active \in BOOLEAN, generic \in BOOLEAN :
       LET id == blocksCreated + 1
       IN /\ dbBlocks' = [b \in DOMAIN dbBlocks \cup {id} |->
                            IF b = id THEN [isActive |-> active, generic |-> generic]
                            ELSE dbBlocks[b]]
          /\ lastCall' = Call("createBlock", id, FALSE, 0)
  /\ blocksCreated' = blocksCreated + 1
  /\ pc' = "app"
  /\ UNCHANGED <<dbRecords, storeVars, benchmarkVars, blockVars, corrVars>>

\* the import stores records of a trade-based block: trades, daily logs,
\* reporting logs or calculations, each with the block's id
AddBlockRecords ==
  /\ pc \in {"idle", "app"}
  /\ \E s \in BlockStores, id \in DOMAIN dbBlocks :
       /\ ~dbBlocks[id].generic
       /\ id \notin dbRecords[s]
       /\ dbRecords' = [dbRecords EXCEPT ![s] = @ \cup {id}]
       /\ lastCall' = Call("addRecords", id, FALSE, 0)
  /\ pc' = "app"
  /\ UNCHANGED <<dbBlocks, blocksCreated, storeVars, benchmarkVars, blockVars, corrVars>>

\* addEquityCurveEntries(block.id, entries), for a generic block
AddEquityCurveEntries ==
  /\ pc \in {"idle", "app"}
  /\ \E id \in DOMAIN dbBlocks :
       /\ dbBlocks[id].generic
       /\ id \notin dbRecords[EquityCurveStore]
       /\ dbRecords' = [dbRecords EXCEPT ![EquityCurveStore] = @ \cup {id}]
       /\ lastCall' = Call("addEquityCurveEntries", id, FALSE, 0)
  /\ pc' = "app"
  /\ UNCHANGED <<dbBlocks, blocksCreated, storeVars, benchmarkVars, blockVars, corrVars>>

\* variant: the target is activated, the other blocks are left as they are
ActivatedOnly(blocks, blockId) ==
  [b \in DOMAIN blocks |-> IF b = blockId THEN [blocks[b] EXCEPT !.isActive = TRUE]
                           ELSE blocks[b]]

\* the blocks setActiveBlock's loop puts: those whose isActive differs
PutsOf(blocks, blockId) == {b \in DOMAIN blocks : blocks[b].isActive # (b = blockId)}

\* the loop of setActiveBlock over store.getAll()
Activated(blocks, blockId) ==
  [b \in DOMAIN blocks |->
     IF b \in PutsOf(blocks, blockId) THEN [blocks[b] EXCEPT !.isActive = (b = blockId)]
     ELSE blocks[b]]

\* setActiveBlock(blockId), one write transaction on the blocks store
SetActiveBlock ==
  /\ pc \in {"idle", "app"}
  /\ \E blockId \in BlockIds :
       IF blockId \notin DOMAIN dbBlocks
       THEN /\ lastCall' = Call("setActiveBlock", blockId, TRUE, 0)
            /\ UNCHANGED dbBlocks
       ELSE /\ dbBlocks' = Activated(dbBlocks, blockId)
            /\ lastCall' = Call("setActiveBlock", blockId, FALSE,
                                Cardinality(PutsOf(dbBlocks, blockId)))
  /\ pc' = "app"
  /\ UNCHANGED <<dbRecords, blocksCreated, storeVars, benchmarkVars, blockVars, corrVars>>

\* the stores of deleteBlock's transaction beside the blocks store
DeletedStores == {"trades", "dailyLogs", "calculations", "reportingLogs"}

\* deleteBlock(blockId), one write transaction: blocksStore.delete, then a
\* cursor over the blockId index of each store of the transaction
DeleteBlock ==
  /\ pc \in {"idle", "app"}
  /\ \E blockId \in BlockIds :
       /\ dbBlocks' = [b \in DOMAIN dbBlocks \ {blockId} |-> dbBlocks[b]]
       /\ dbRecords' = [s \in Stores |-> IF s \in DeletedStores
                                         THEN dbRecords[s] \ {blockId}
                                         ELSE dbRecords[s]]
       /\ lastCall' = Call("deleteBlock", blockId, FALSE, 0)
  /\ pc' = "app"
  /\ UNCHANGED <<blocksCreated, storeVars, benchmarkVars, blockVars, corrVars>>

DbNext ==
  \/ CreateBlock
  \/ AddBlockRecords
  \/ AddEquityCurveEntries
  \/ SetActiveBlock
  \/ DeleteBlock

DbSpec == Init /\ [][DbNext]_vars

\* --------------------------------------------- state: performance store
MaxInFlight == 2      \* store calls that await at the same time

InFlight == Cardinality(pendingFetches) + Cardinality(pendingFilters)

\* what a fetchPerformanceData call holds while it awaits
Fetch(blockId, at, generic, filters) ==
  [blockId |-> blockId, at |-> at, generic |-> generic, filters |-> filters]

\* PerformanceData: its blockType, the block whose rows are in all*, the
\* block whose rows the statistics and the charts show, and their filters
Data(blockType, allOf, shownOf, filters) ==
  [blockType |-> blockType, allOf |-> allOf, shownOf |-> shownOf, filters |-> filters]

\* fetchPerformanceData(blockId) up to its first await
FetchPerformanceData ==
  /\ pc \in {"idle", "app"}
  /\ InFlight < MaxInFlight
  /\ \E blockId \in BlockIds :
       pendingFetches' = pendingFetches \cup {Fetch(blockId, "getBlock", FALSE, FALSE)}
  /\ storeData' = None
  /\ isLoading' = TRUE
  /\ storeError' = NoError
  /\ pc' = "app"
  /\ UNCHANGED <<storeFilters, pendingFilters, dbVars, benchmarkVars, blockVars, corrVars>>

\* await getBlock(blockId) resolves: the throw and its catch for no block,
\* else the call goes on to read the block's rows, a trade-based one with
\* the filters of get()
FetchGetBlock ==
  /\ pc = "app"
  /\ \E f \in pendingFetches :
       /\ f.at = "getBlock"
       /\ IF f.blockId \notin DOMAIN dbBlocks
          THEN /\ pendingFetches' = pendingFetches \ {f}
               /\ storeError' = "Block not found"
               /\ isLoading' = FALSE
          ELSE /\ pendingFetches' = (pendingFetches \ {f}) \cup
                    {IF dbBlocks[f.blockId].generic
                     THEN Fetch(f.blockId, "rows", TRUE, FALSE)
                     ELSE Fetch(f.blockId, "rows", FALSE, storeFilters)}
               /\ UNCHANGED <<storeError, isLoading>>
  /\ UNCHANGED <<pc, storeData, storeFilters, pendingFilters, dbVars, benchmarkVars,
                 blockVars, corrVars>>

\* the last await of fetchPerformanceData resolves and the call sets data
FetchRows ==
  /\ pc = "app"
  /\ \E f \in pendingFetches :
       /\ f.at = "rows"
       /\ pendingFetches' = pendingFetches \ {f}
       /\ storeData' = Data(IF f.generic THEN "equity-curve" ELSE "trade-based",
                            f.blockId, f.blockId, f.filters)
  /\ isLoading' = FALSE
  /\ UNCHANGED <<pc, storeError, storeFilters, pendingFilters, dbVars, benchmarkVars,
                 blockVars, corrVars>>

\* setDateRange, setSelectedStrategies or setNormalizeTo1Lot: the set, then
\* applyFilters() up to its first await (none for equity-curve data)
SetFilters ==
  /\ pc \in {"idle", "app"}
  /\ \E v \in BOOLEAN :
       /\ storeFilters' = v
       /\ IF storeData = None
          THEN UNCHANGED <<storeData, pendingFilters>>
          ELSE IF storeData.blockType = "equity-curve"
          THEN /\ storeData' = [storeData EXCEPT !.shownOf = storeData.allOf, !.filters = v]
               /\ UNCHANGED pendingFilters
          ELSE /\ InFlight < MaxInFlight
               /\ pendingFilters' = pendingFilters \cup
                                      {[allOf |-> storeData.allOf, filters |-> v]}
               /\ UNCHANGED storeData
  /\ pc' = "app"
  /\ UNCHANGED <<isLoading, storeError, pendingFetches, dbVars, benchmarkVars,
                 blockVars, corrVars>>

\* await buildPerformanceSnapshot(...) of applyFilters resolves: the set
\* with the updater over the state of that moment
ApplyFiltersResolves ==
  /\ pc = "app"
  /\ \E c \in pendingFilters :
       /\ pendingFilters' = pendingFilters \ {c}
       /\ storeData' = IF storeData # None /\ storeData.blockType = "trade-based"
                       THEN [storeData EXCEPT !.shownOf = c.allOf, !.filters = c.filters]
                       ELSE storeData
  /\ UNCHANGED <<pc, isLoading, storeError, storeFilters, pendingFetches, dbVars,
                 benchmarkVars, blockVars, corrVars>>

\* reset()
Reset ==
  /\ pc = "app"
  /\ storeData' = None
  /\ isLoading' = FALSE
  /\ storeError' = NoError
  /\ storeFilters' = FALSE
  /\ UNCHANGED <<pc, pendingFetches, pendingFilters, dbVars, benchmarkVars,
                 blockVars, corrVars>>

StoreNext ==
  \/ CreateBlock
  \/ FetchPerformanceData
  \/ FetchGetBlock
  \/ FetchRows
  \/ SetFilters
  \/ ApplyFiltersResolves
  \/ Reset

StoreSpec == Init /\ [][StoreNext]_vars

\* ---------------------------------------------------- claims: Super-Block
Returned == pc \in {"combined", "raised"}
Components == DOMAIN componentCurves
DatesOf(name) == {e.date : e \in componentCurves[name]}
UnionDates == UNION {DatesOf(n) : n \in Components}
CommonDates == {d \in UnionDates : \A n \in Components : d \in DatesOf(n)}
Ascending(s) == \A i \in 1..Len(s) - 1 : s[i] < s[i + 1]
SetMax(S) == CHOOSE x \in S : \A y \in S : y <= x
EntryOn(name, d) == CHOOSE e \in componentCurves[name] : e.date = d
\* the components with an entry on or before date d
SeenBy(d) == {n \in Components : \E x \in DatesOf(n) : x <= d}
\* the most recent entry of a component on or before date d
LastEntry(name, d) == EntryOn(name, SetMax({x \in DatesOf(name) : x <= d}))

\* C1: combineSuperBlock raises exactly when the selected strategy leaves no
\* aligned date: no component at all, no date at all under 'union', no date
\* common to all components under the other three strategies; when it raises
\* it returns no combined curve, otherwise it returns one without an error.
C1_RaisesIffNoAlignedDate ==
  Returned =>
    /\ (pc = "raised") <=>
         \/ Components = {}
         \/ alignment = "union" /\ UnionDates = {}
         \/ alignment # "union" /\ CommonDates = {}
    /\ (pc = "raised") <=> (error # NoError)
    /\ (pc = "raised") => combinedEquityCurve = <<>> /\ dateRange = None
    /\ (pc = "combined") => dateRange # None

C1_Witness ==
  /\ pc = "raised"
  /\ alignment = "intersection"
  /\ Cardinality(Components) = 2
  /\ \A n \in Components : DatesOf(n) # {}
  /\ CommonDates = {}

\* C2: when combineSuperBlock raises, the error tells the cause: the error
\* raised under one of 'intersection', 'earliest-common', 'latest-common'
\* differs from the error the same components raise under another of them.
C2_ErrorIdentifiesCause ==
  (pc = "raised" /\ alignment # "union" /\ Components # {}) =>
    \A other \in (Alignments \ {"union", alignment}) :
      LET r == CombineSuperBlockResult(componentCurves, other)
      IN r.raised => r.error # error

\* C3: no combined point is emitted for a date earlier than the first aligned
\* date on which every component has an entry, so every emitted point has a
\* componentValues entry for every component.
C3_NoPointBeforeCompleteDate ==
  pc = "combined" =>
    \A i \in 1..Len(combinedEquityCurve) :
      LET p == combinedEquityCurve[i]
      IN /\ DOMAIN p.componentValues = Components
         /\ \E d \in CommonDates : d <= p.date

\* C4: under 'union', on every emitted date a component without an entry on
\* that date but with an earlier one contributes the accountValue of its most
\* recent earlier entry, to componentValues and to combinedAccountValue.
C4_UnionForwardFill ==
  (pc = "combined" /\ alignment = "union") =>
    \A i \in 1..Len(combinedEquityCurve) :
      LET p == combinedEquityCurve[i]
          seen == SeenBy(p.date)
      IN /\ \A n \in seen :
              /\ n \in DOMAIN p.componentValues
              /\ p.componentValues[n] = LastEntry(n, p.date).accountValue
         /\ p.combinedAccountValue =
              SumOver([n \in seen |-> LastEntry(n, p.date).accountValue], seen)

C4_Witness ==
  /\ pc = "combined"
  /\ alignment = "union"
  /\ \E i \in 1..Len(combinedEquityCurve), n \in Components :
       LET d == combinedEquityCurve[i].date
       IN /\ d \notin DatesOf(n)
          /\ \E x, y \in DatesOf(n) :
               /\ x < y /\ y < d
               /\ EntryOn(n, x).accountValue # EntryOn(n, y).accountValue

C6_MarginIsMeanOfUsed ==
  pc = "combined" =>
    \A i \in 1..Len(combinedEquityCurve) :
      LET p == combinedEquityCurve[i]
          seen == SeenBy(p.date)
          sumUsed == SumOver([n \in seen |-> LastEntry(n, p.date).marginReq], seen)
      IN p.combinedMarginReq.num * Cardinality(seen) = sumUsed * p.combinedMarginReq.den

\* C7: 'intersection' returns exactly the dates present in every component,
\* ascending and without duplicates, with a warning exactly when the overlap
\* is empty or smaller than half the number of distinct dates of the union.
C7_IntersectionAxis ==
  (Returned /\ alignment = "intersection" /\ Components # {}) =>
    /\ Range(alignedDates) = CommonDates
    /\ Ascending(alignedDates)
    /\ (warnings # <<>>) <=>
         \/ CommonDates = {}
         \/ 2 * Cardinality(CommonDates) < Cardinality(UnionDates)

C7_Witness ==
  /\ pc = "combined"
  /\ alignment = "intersection"
  /\ Len(alignedDates) >= 1
  /\ 2 * Len(alignedDates) < Cardinality(UnionDates)
  /\ warnings = <<"Limited date overlap">>

\* C8: 'earliest-common' (resp. 'latest-common') returns exactly the union
\* dates on or after the first (resp. on or before the last) common date,
\* ascending; without a common date alignDates returns an empty axis and a
\* warning, the value combineSuperBlock then sees.
C8_CommonStartEndAxis ==
  (Returned /\ alignment \in {"earliest-common", "latest-common"} /\ Components # {}) =>
    IF CommonDates = {}
      THEN /\ alignedDates = <<>>
           /\ Len(warnings) = 1
           /\ warnings[1] = IF alignment = "earliest-common"
                              THEN "No common start date found"
                              ELSE "No common end date found"
      ELSE /\ Ascending(alignedDates)
           /\ warnings = <<>>
           /\ Range(alignedDates) =
                IF alignment = "earliest-common"
                  THEN {d \in UnionDates : d >= SetMin(CommonDates)}
                  ELSE {d \in UnionDates : d <= SetMax(CommonDates)}

C8_Witness ==
  /\ pc = "combined"
  /\ alignment = "latest-common"
  /\ Len(alignedDates) >= 2
  /\ Len(alignedDates) < Cardinality(UnionDates)
  /\ \E i \in 1..Len(alignedDates) : alignedDates[i] \notin CommonDates

\* ----------------------------------------------------- claims: streaks
SortedReturns == LET s == SortByDate(entries)
                 IN [i \in 1..Len(s) |-> s[i].dailyReturnPct]
HasZeroDay == \E i \in 1..Len(entries) : entries[i].dailyReturnPct = 0
\* sum of (streak length x count) over a distribution
DistTotal(dist) == SumOver([k \in DOMAIN dist |-> k * dist[k]], DOMAIN dist)
StreakTotal == DistTotal(chartData.streakData.winDistribution)
               + DistTotal(chartData.streakData.lossDistribution)
\* the zero-return days that follow a win or a loss day, i.e. that close an open streak
InterruptingDays ==
  Cardinality({i \in 2..Len(SortedReturns) :
                 SortedReturns[i] = 0 /\ SortedReturns[i - 1] # 0})

\* C9: without a zero-return day, the streak lengths of winDistribution and
\* lossDistribution add up to winningTrades + losingTrades.
C9_StreakConservation ==
  (pc = "snapshot" /\ Len(entries) > 0 /\ ~HasZeroDay) =>
    StreakTotal = portfolioStats.winningTrades + portfolioStats.losingTrades

C9_Witness ==
  /\ pc = "snapshot"
  /\ ~HasZeroDay
  /\ Len(entries) >= 3
  /\ portfolioStats.winningTrades >= 1
  /\ portfolioStats.losingTrades >= 1
  /\ chartData.streakData.statistics.currentStreak # 0

\* C10 as stated: with zero-return days, the streak-length total is
\* winningDays + losingDays less the number of break-even days that
\* interrupt an open streak.
C10_ReducedByInterruptingDays ==
  (pc = "snapshot" /\ HasZeroDay) =>
    StreakTotal = portfolioStats.winningTrades + portfolioStats.losingTrades
                  - InterruptingDays

\* C10 amended: with zero-return days, the streak-length total still equals
\* winningDays + losingDays; it is smaller than the number of days by the
\* number of break-even days, interrupting or not.
C10_ZeroDaysLeaveTotal ==
  (pc = "snapshot" /\ HasZeroDay) =>
    /\ StreakTotal = portfolioStats.winningTrades + portfolioStats.losingTrades
    /\ StreakTotal = portfolioStats.totalTrades - portfolioStats.breakEvenTrades

C10_Witness ==
  /\ pc = "snapshot"
  /\ InterruptingDays >= 1
  /\ portfolioStats.winningTrades >= 2
  /\ chartData.streakData.statistics.maxWinStreak = 1

\* a maximal run of strictly positive (sign = 1) or strictly negative
\* (sign = -1) days at positions i..j of the entries in date order
IsRun(r, sign, i, j) ==
  /\ 1 <= i /\ i <= j /\ j <= Len(r)
  /\ \A k \in i..j : sign * r[k] > 0
  /\ (i = 1 \/ sign * r[i - 1] <= 0)
  /\ (j = Len(r) \/ sign * r[j + 1] <= 0)
RunsOfLength(r, sign, k) ==
  Cardinality({i \in 1..Len(r) : IsRun(r, sign, i, i + k - 1)})
LongestRun(r, sign) ==
  LET lens == {k \in 1..Len(r) : RunsOfLength(r, sign, k) > 0}
  IN IF lens = {} THEN 0 ELSE SetMax(lens)
\* dist[k], an absent key read as 0
DistAt(dist, k) == IF k \in DOMAIN dist THEN dist[k] ELSE 0
\* the length of the run of sign-days the entries end with
TrailingRun(r, sign) ==
  LET n == Len(r)
      lens == {k \in 1..n : IsRun(r, sign, n - k + 1, n)}
  IN IF lens = {} THEN 0 ELSE SetMax(lens)

\* C11: winDistribution[k] (lossDistribution[k]) is the number of maximal runs
\* of exactly k consecutive strictly positive (negative) days in date order,
\* a zero-return day ending an open run without starting one; no other key
\* is present; maxWinStreak and maxLossStreak are the longest such runs, 0
\* without one.
C11_DistributionCountsRuns ==
  (pc = "snapshot" /\ Len(entries) > 0) =>
    LET sd == chartData.streakData
        r == SortedReturns
    IN /\ DOMAIN sd.winDistribution \subseteq 1..Len(entries)
       /\ DOMAIN sd.lossDistribution \subseteq 1..Len(entries)
       /\ \A k \in 1..Len(entries) :
            /\ DistAt(sd.winDistribution, k) = RunsOfLength(r, 1, k)
            /\ DistAt(sd.lossDistribution, k) = RunsOfLength(r, -1, k)
       /\ sd.statistics.maxWinStreak = LongestRun(r, 1)
       /\ sd.statistics.maxLossStreak = LongestRun(r, -1)

C11_Witness ==
  /\ pc = "snapshot"
  /\ Len(entries) = 4
  /\ RunsOfLength(SortedReturns, 1, 1) = 2
  /\ \E i \in 2..3 : SortedReturns[i] = 0 /\ SortedReturns[i - 1] > 0 /\ SortedReturns[i + 1] > 0
  /\ chartData.streakData.statistics.maxWinStreak = 1
  /\ chartData.streakData.statistics.maxLossStreak = 1

\* C12: currentStreak is +L when the entries in date order end with a run of
\* exactly L positive days, -L when they end with a run of exactly L negative
\* days, and 0 when the last entry has a zero return.
C12_CurrentStreakIsTrailingRun ==
  (pc = "snapshot" /\ Len(entries) > 0) =>
    LET cur == chartData.streakData.statistics.currentStreak
        r == SortedReturns
        last == r[Len(r)]
    IN /\ last > 0 => cur = TrailingRun(r, 1) /\ cur > 0
       /\ last < 0 => cur = 0 - TrailingRun(r, -1) /\ cur < 0
       /\ last = 0 => cur = 0

C12_Witness ==
  /\ pc = "snapshot"
  /\ Len(entries) = 4
  /\ chartData.streakData.statistics.currentStreak = -2
  /\ SortedReturns[1] < 0
  /\ SortedReturns[2] > 0

\* ---------------------------------------------------- claims: drawdown
\* the account values of the entries in date order
SortedValues == LET s == SortByDate(entries)
                IN [i \in 1..Len(s) |-> s[i].accountValue]
NonDecreasing(s) == \A i \in 1..Len(s) - 1 : s[i] <= s[i + 1]
\* 0 <= q <= 1 for a quotient q, which no NaN and no infinity satisfies
QInUnitInterval(q) == q.den > 0 /\ 0 <= q.num /\ q.num <= q.den
QIsZero(q) == q.den > 0 /\ q.num = 0

\* C13: for every input of calculateEquityCurveStats, whatever the account
\* values, maxDrawdownPct lies in [0, 1] and maxDrawdown is not negative.
C13_DrawdownWithinRange ==
  (pc = "snapshot" /\ Len(entries) > 0) =>
    /\ QInUnitInterval(portfolioStats.maxDrawdownPct)
    /\ portfolioStats.maxDrawdown >= 0

\* C14: maxDrawdownPct is 0 exactly when the account values in date order
\* never decrease.
C14_ZeroIffNonDecreasing ==
  (pc = "snapshot" /\ Len(entries) > 0) =>
    (QIsZero(portfolioStats.maxDrawdownPct) <=> NonDecreasing(SortedValues))

\* ----------------------------------------- claims: correlation primitives
\* every element of the series has the same value (the empty series too)
ZeroVariance(s) == \A i, j \in DOMAIN s : s[i] = s[j]

\* C16: the Pearson primitive (calculateCorrelation, pearsonCorrelation)
\* returns exactly 0, and in particular no NaN, when its two series differ in
\* length, are empty, or either of them has zero variance.
C16_DegenerateInputsGiveZero ==
  (/\ pc = "correlated"
   /\ \/ Len(seriesX) # Len(seriesY)
      \/ Len(seriesX) = 0
      \/ ZeroVariance(seriesX)
      \/ ZeroVariance(seriesY)) =>
    /\ correlation.calculateCorrelation = Zero
    /\ correlation.pearsonCorrelation = Zero

\* twice the value of a number that is a multiple of 1/2
Twice(a) == a.m * Pow2(a.e + 1)
IsHalfInteger(a) == ~a.nan /\ a.e >= -1
\* the number of elements of rankArr below, and equal to, its k-th element
SmallerThan(k) == Cardinality({i \in DOMAIN rankArr : FCompare(rankArr[i], rankArr[k]) = -1})
EqualTo(k) == Cardinality({i \in DOMAIN rankArr : rankArr[i] = rankArr[k]})

\* C17: getRanks gives every element the average of the 1-based positions
\* its tie group takes in sorted order, so equal values get equal ranks and
\* the ranks of n elements add up to n(n+1)/2.
C17_AverageRankOfTies ==
  pc = "ranked" =>
    /\ DOMAIN rankResult = DOMAIN rankArr
    /\ \A k \in DOMAIN rankArr :
         /\ IsHalfInteger(rankResult[k])
         \* the group takes positions SmallerThan + 1 .. SmallerThan + EqualTo
         /\ Twice(rankResult[k]) = 2 * SmallerThan(k) + EqualTo(k) + 1
    /\ \A k, l \in DOMAIN rankArr :
         rankArr[k] = rankArr[l] => rankResult[k] = rankResult[l]
    /\ SumOver([k \in DOMAIN rankArr |-> Twice(rankResult[k])], DOMAIN rankArr)
         = Len(rankArr) * (Len(rankArr) + 1)

\* the shape of the claim's example [5, 5, 5, 10] -> [2, 2, 2, 4]
C17_Witness ==
  /\ pc = "ranked"
  /\ rankArr = <<Integer(1), Integer(1), Integer(1), Integer(7)>>
  /\ rankResult = <<Integer(2), Integer(2), Integer(2), Integer(4)>>

\* ------------------------------------------- claims: correlation matrix
\* the matrix is n x n, its diagonal is exactly 1 and it is symmetric
SquareUnitSymmetric(matrix, n) ==
  /\ Len(matrix.strategies) = n
  /\ DOMAIN matrix.correlationData = 1..n
  /\ \A i \in 1..n :
       /\ DOMAIN matrix.correlationData[i] = 1..n
       /\ matrix.correlationData[i][i] = Integer(1)
       /\ \A j \in 1..n : matrix.correlationData[i][j] = matrix.correlationData[j][i]
\* the strategies with at least one entry: the names a flat entry list holds
NamedInEntries == {n \in DOMAIN strategyCurves : strategyCurves[n] # {}}
HasOffDiagonal(matrix) ==
  \E i, j \in DOMAIN matrix.correlationData :
    i # j /\ matrix.correlationData[i][j] \notin {Zero, NaN}

Analyzed == pc = "analyzed" /\ Len(correlationMatrix.strategies) >= 2
\* a { value, pair } result names a pair i < j whose matrix entry is the value
NamesPairWithValue(r) ==
  \E i, j \in DOMAIN correlationMatrix.strategies :
    /\ i < j
    /\ r.pair = <<correlationMatrix.strategies[i], correlationMatrix.strategies[j]>>
    /\ correlationMatrix.correlationData[i][j] = r.value

\* C18: for two or more strategies and entries in [-1, 1], all -1 or all 1
\* included, strongest.value is maxCorrelation, weakest.value is
\* minCorrelation, and strongest.pair and weakest.pair name a pair i < j
\* whose matrix entry equals that value.
C18_StrongestWeakestNamePairs ==
  Analyzed =>
    /\ analytics.strongest.value = analytics.maxCorrelation
    /\ analytics.weakest.value = analytics.minCorrelation
    /\ NamesPairWithValue(analytics.strongest)
    /\ NamesPairWithValue(analytics.weakest)

\* the i < j pairs of the matrix with their correlations, as records
MatrixPairs ==
  {[strategy1 |-> correlationMatrix.strategies[i],
    strategy2 |-> correlationMatrix.strategies[j],
    correlation |-> correlationMatrix.correlationData[i][j]] :
     i, j \in DOMAIN correlationMatrix.strategies} \cap
  {p \in [strategy1 : Range(correlationMatrix.strategies),
          strategy2 : Range(correlationMatrix.strategies),
          correlation : Levels] : NameRank(p.strategy1) < NameRank(p.strategy2)}
SevenTenths == Literal(7, 10)
ThreeTenths == Literal(3, 10)
AbsAbove(p, t) == FCompare(FAbs(p.correlation), t) = 1
AbsBelow(p, t) == FCompare(FAbs(p.correlation), t) = -1
\* |p.correlation| compared with |q.correlation|: -1, 0, 1
AbsCompare(p, q) == FCompare(FAbs(p.correlation), FAbs(q.correlation))
UnorderedPair(p) == {p.strategy1, p.strategy2}
\* list holds the first PairLimit (or all) of the qualifying pairs in the
\* given order of magnitude (direction 1: descending, -1: ascending)
FirstOfSorted(list, qualifying, direction) ==
  /\ Len(list) = Min(Cardinality(qualifying), PairLimit)
  /\ Range(list) \subseteq qualifying
  /\ \A x, y \in DOMAIN list : x # y => UnorderedPair(list[x]) # UnorderedPair(list[y])
  /\ \A x \in 1..Len(list) - 1 : AbsCompare(list[x], list[x + 1]) \in {0, direction}
  /\ \A q \in qualifying \ Range(list) :
       \A x \in DOMAIN list : AbsCompare(list[x], q) \in {0, direction}

\* C19: highlyCorrelatedPairs is the first 10 (or all) of the i < j pairs
\* with |correlation| > 0.7 in descending order of |correlation|,
\* uncorrelatedPairs the first 10 (or all) of those with |correlation| < 0.3
\* in ascending order; an unordered pair is at most once in a list and
\* never in both.
C19_PairLists ==
  Analyzed =>
    /\ FirstOfSorted(analytics.highlyCorrelatedPairs,
                     {p \in MatrixPairs : AbsAbove(p, SevenTenths)}, 1)
    /\ FirstOfSorted(analytics.uncorrelatedPairs,
                     {p \in MatrixPairs : AbsBelow(p, ThreeTenths)}, -1)
    /\ \A h \in Range(analytics.highlyCorrelatedPairs),
          u \in Range(analytics.uncorrelatedPairs) :
         UnorderedPair(h) # UnorderedPair(u)

\* more than ten pairs qualify, and the one the list starts with comes late
\* in the order of the loop and outranks the others
C19_Witness ==
  /\ Analyzed
  /\ Cardinality({p \in MatrixPairs : AbsAbove(p, SevenTenths)}) > PairLimit
  /\ Len(analytics.highlyCorrelatedPairs) = PairLimit
  /\ analytics.highlyCorrelatedPairs[1].strategy1 = "E"
  /\ AbsCompare(analytics.highlyCorrelatedPairs[1], analytics.highlyCorrelatedPairs[2]) = 1
  /\ analytics.highlyCorrelatedPairs[1].correlation = Integer(-1)

\* the results a result is compared with: those of the matrices of two
\* strategies at each level
ComparisonAnalytics ==
  {CalculateEquityCurveCorrelationAnalytics(MatrixOf(2, level, level, {})) :
     level \in Levels}
\* the spacing of the numbers just below 2
Spacing == [nan |-> FALSE, m |-> 1, e |-> 1 - MantissaBits]
\* b - a is more than the spacing
ApartBy(a, b) == FGreater(FSub(b, a), Spacing)

\* C20 as stated: of two matrices with average correlations a < b, the one
\* with a has the strictly larger diversificationScore.
C20_StrictlyLargerScore ==
  Analyzed =>
    \A other \in ComparisonAnalytics :
         /\ FLess(analytics.avgCorrelation, other.avgCorrelation)
              => FGreater(analytics.diversificationScore, other.diversificationScore)
         /\ FLess(other.avgCorrelation, analytics.avgCorrelation)
              => FGreater(other.diversificationScore, analytics.diversificationScore)

\* C20 amended: of two matrices with average correlations a < b, the one
\* with a has a diversificationScore that is not smaller, and that is
\* strictly larger when b - a exceeds the spacing of the numbers below 2.
C20_LargerScoreUpToRounding ==
  Analyzed =>
    \A other \in ComparisonAnalytics :
      LET a == analytics.avgCorrelation
          b == other.avgCorrelation
      IN /\ FLess(a, b) =>
              /\ ~FLess(analytics.diversificationScore, other.diversificationScore)
              /\ ApartBy(a, b) =>
                   FGreater(analytics.diversificationScore, other.diversificationScore)
         /\ FLess(b, a) =>
              /\ ~FLess(other.diversificationScore, analytics.diversificationScore)
              /\ ApartBy(b, a) =>
                   FGreater(other.diversificationScore, analytics.diversificationScore)

\* a mixed matrix whose average is close below one comparison matrix's (the
\* scores are equal) and far below another's (the score is larger)
C20_Witness ==
  /\ Analyzed
  /\ Len(correlationMatrix.strategies) >= 3
  /\ analytics.maxCorrelation # analytics.minCorrelation
  /\ \E other \in ComparisonAnalytics :
       /\ FLess(analytics.avgCorrelation, other.avgCorrelation)
       /\ analytics.diversificationScore = other.diversificationScore
  /\ \E other \in ComparisonAnalytics :
       /\ ApartBy(analytics.avgCorrelation, other.avgCorrelation)
       /\ FGreater(analytics.diversificationScore, other.diversificationScore)

\* C25: for every matrix with off-diagonal entries in [-1, 1] the
\* diversificationScore lies in [0, 1].
C25_ScoreInUnitInterval ==
  pc = "analyzed" =>
    /\ ~analytics.diversificationScore.nan
    /\ ~FLess(analytics.diversificationScore, Zero)
    /\ ~FGreater(analytics.diversificationScore, Integer(1))

\* ------------------------------------------- claims: common-dates alignment
\* the strategies that have an entry, i.e. those of the flat entry list
StrategiesWithEntries == {n \in DOMAIN strategyCurves : strategyCurves[n] # {}}
\* the dates on which every such strategy has an entry
DatesOfEveryStrategy ==
  {d \in MatrixDates : /\ StrategiesWithEntries # {}
                       /\ \A n \in StrategiesWithEntries : HasDate(strategyCurves[n], d)}

\* C24: under the common-dates policy the dates axis is exactly the set of
\* dates on which every strategy has an entry, ascending without duplicates,
\* and every strategy's alignedReturns has one element per axis date: that
\* strategy's dailyReturnPct on the date.
C24_CommonDatesAxis ==
  pc = "matrix" =>
    LET dates == matrixResult.flat.dates
        alignedReturns == matrixResult.flat.alignedReturns
    IN /\ Range(dates) = DatesOfEveryStrategy
       /\ \A i \in 1..Len(dates) - 1 : dates[i] < dates[i + 1]
       /\ DOMAIN alignedReturns = StrategiesWithEntries
       /\ \A n \in StrategiesWithEntries :
            /\ Len(alignedReturns[n]) = Len(dates)
            /\ \A i \in 1..Len(dates) :
                 \E e \in strategyCurves[n] :
                   e.date = dates[i] /\ e.dailyReturnPct = alignedReturns[n][i]

\* two strategies share one date and one of them has a date of its own
C24_Witness ==
  /\ pc = "matrix"
  /\ Cardinality(StrategiesWithEntries) = 2
  /\ Len(matrixResult.flat.dates) = 1
  /\ Len(matrixResult.byStrategy.dates) = 2
  /\ \E n \in StrategiesWithEntries : Cardinality(strategyCurves[n]) = 2
  /\ \E n \in StrategiesWithEntries : matrixResult.flat.alignedReturns[n] = <<Integer(7)>>

\* ------------------------------------------ claims: benchmark correlation
\* the dates a strategy shares with the benchmark
SharedWithSPY(name) ==
  {d \in SpyDates : HasDate(strategyCurves[name], d) /\ HasDate(spyEntries, d)}

\* C21: a strategy's return is paired with the benchmark's only on the dates
\* both series have, the two aligned vectors have the same length, and a
\* strategy without a date in common with the benchmark gets correlation,
\* beta, alpha, rSquared and trackingError 0; no error is raised.
C21_PairsOnCommonDatesOnly ==
  pc = "benchmarked" =>
    /\ DOMAIN spyResults = DOMAIN strategyCurves
    /\ \A name \in DOMAIN strategyCurves :
         LET r == spyResults[name]
             shared == SortAsc(SharedWithSPY(name))
         IN /\ Len(r.alignedStrategyReturns) = Len(r.alignedSPYReturns)
            /\ Len(r.alignedStrategyReturns) = Len(shared)
            /\ \A i \in 1..Len(shared) :
                 /\ r.alignedStrategyReturns[i] =
                      FDiv(ReturnOn(strategyCurves[name], shared[i]), Integer(100))
                 /\ r.alignedSPYReturns[i] =
                      FDiv(ReturnOn(spyEntries, shared[i]), Integer(100))
            /\ shared = <<>> => r.result = ZeroSPYResult

\* one strategy has entries and none on a date of the benchmark, another
\* shares a date with the benchmark and has one the benchmark lacks
C21_Witness ==
  /\ pc = "benchmarked"
  /\ spyEntries # {}
  /\ \E name \in DOMAIN strategyCurves :
       /\ strategyCurves[name] # {}
       /\ SharedWithSPY(name) = {}
       /\ spyResults[name].result = ZeroSPYResult
  /\ \E name \in DOMAIN strategyCurves :
       /\ Cardinality(SharedWithSPY(name)) = 1
       /\ Cardinality(strategyCurves[name]) = 2
       /\ spyResults[name].result # ZeroSPYResult

\* ------------------------------------------------ claims: empty input
\* the numeric fields of PortfolioStats that createEmptyStats fills
StatsFields ==
  {"initialCapital", "totalPl", "netPl", "totalTrades", "winningTrades", "losingTrades",
   "breakEvenTrades", "winRate", "avgWin", "avgLoss", "maxWin", "maxLoss",
   "profitFactor", "sharpeRatio", "sortinoRatio", "calmarRatio", "maxDrawdown",
   "avgDailyPl", "totalCommissions"}

\* C22: for an empty entry list every numeric field of the statistics is 0,
\* and the chart data has empty equityCurve, drawdownData, returnDistribution
\* and rollingMetrics, empty monthly maps and no streakData; nothing is raised.
C22_EmptyInputGivesZeroes ==
  (pc = "snapshot" /\ entries = <<>>) =>
    /\ DOMAIN portfolioStats = StatsFields
    /\ \A f \in StatsFields : portfolioStats[f] = 0
    /\ chartData.equityCurve = <<>>
    /\ chartData.drawdownData = <<>>
    /\ chartData.returnDistribution = <<>>
    /\ chartData.rollingMetrics = <<>>
    /\ DOMAIN chartData.monthlyReturns = {}
    /\ DOMAIN chartData.monthlyReturnsPercent = {}
    /\ chartData.streakData = None

\* the snapshot of no entries
C22_Witness ==
  /\ pc = "snapshot"
  /\ entries = <<>>
  /\ portfolioStats.initialCapital = 0
  /\ chartData.equityCurve = <<>>

\* --------------------------------------------- claims: initial capital
\* the earliest entry of the list
EarliestEntry == SortByDate(entries)[1]

\* C23: initialCapital is the earliest entry's accountValue /
\* (1 + dailyReturnPct), and the default 10000 whenever that is degenerate,
\* in particular for a first-day return of -100%: never infinite or NaN,
\* with or without a strategy name.
C23_InitialCapitalOrDefault ==
  (pc = "snapshot" /\ Len(entries) > 0) =>
    LET first == EarliestEntry
        q == portfolioStats.initialCapital
    IN /\ q.den # 0
       /\ 1 + first.dailyReturnPct = 0 => q = Quot(DefaultCapital, 1)
       /\ 1 + first.dailyReturnPct # 0 =>
            \/ q = Quot(first.accountValue, 1 + first.dailyReturnPct)
            \/ first.accountValue = 0 /\ q = Quot(DefaultCapital, 1)

\* ------------------------------------------------- claims: chart data
\* C26: for every point in date order highWaterMark is the maximum
\* accountValue seen so far (non-decreasing, >= equity), tradeNumber is the
\* 1-based position, and the drawdownData value is <= 0, exactly 0 where the
\* equity equals the running high-water mark.
C26_HighWaterMarkAndDrawdown ==
  (pc = "snapshot" /\ Len(entries) > 0) =>
    LET sorted == SortByDate(entries)
        curve == chartData.equityCurve
        down == chartData.drawdownData
    IN /\ Len(curve) = Len(sorted)
       /\ Len(down) = Len(sorted)
       /\ \A i \in 1..Len(sorted) :
            /\ curve[i].tradeNumber = i
            /\ curve[i].date = sorted[i].date
            /\ curve[i].equity = sorted[i].accountValue
            /\ curve[i].highWaterMark = SetMax({sorted[k].accountValue : k \in 1..i})
            /\ curve[i].highWaterMark >= curve[i].equity
            /\ i > 1 => curve[i].highWaterMark >= curve[i - 1].highWaterMark
            /\ down[i].date = sorted[i].date
            /\ down[i].drawdownPct.den > 0
            /\ down[i].drawdownPct.num <= 0
            /\ curve[i].equity = curve[i].highWaterMark => down[i].drawdownPct.num = 0

\* entries handed over out of date order: a new high on the second day, a
\* fall below it on the third
C26_Witness ==
  /\ pc = "snapshot"
  /\ Len(entries) >= 3
  /\ entries[1].date > entries[2].date
  /\ chartData.equityCurve[2].highWaterMark > chartData.equityCurve[1].highWaterMark
  /\ chartData.equityCurve[3].equity < chartData.equityCurve[3].highWaterMark
  /\ chartData.drawdownData[2].drawdownPct.num = 0
  /\ chartData.drawdownData[3].drawdownPct.num < 0


\* ---------------------------------------------------------------- C27
\* the rearrangements of a list of n elements
Rearrangements(n) ==
  {p \in [1..n -> 1..n] : \A i, j \in 1..n : i # j => p[i] # p[j]}

Permuted(es, p) == [i \in 1..Len(es) |-> es[p[i]]]

\* C27: a call of calculateEquityCurveStats and buildEquityCurveChartData on
\* entries of pairwise distinct dates leaves the caller's list as it was, and
\* both return for every rearrangement of the list what they returned for it
C27_PermutationInvariant ==
  [][pc' = "snapshot" =>
       /\ entries' = entries
       /\ \A p \in Rearrangements(Len(entries)) :
            LET permuted == Named(Permuted(entries, p), seriesName')
            IN /\ CalculateEquityCurveStats(permuted) = portfolioStats'
               /\ BuildEquityCurveChartData(permuted) = chartData']_vars

\* an answer for three entries handed over latest first, whose returns and
\* account values differ from one end to the other
C27_Witness ==
  /\ pc = "snapshot"
  /\ Len(entries) = 3
  /\ entries[1].date > entries[2].date /\ entries[2].date > entries[3].date
  /\ entries[1].dailyReturnPct # entries[3].dailyReturnPct
  /\ entries[1].accountValue # entries[3].accountValue
  /\ chartData.equityCurve[1].date < chartData.equityCurve[3].date
  /\ portfolioStats # EmptyStats

\* ---------------------------------------------------------------- C28
\* data is null or holds the rows of this block alone
DataOfNoOther(blockId) ==
  storeData = None \/ (storeData.allOf = blockId /\ storeData.shownOf = blockId)

\* C28: while a fetchPerformanceData(B) call awaits, the store's data is
\* null or the data of block B
C28_NoOtherBlocksData == \A f \in pendingFetches : DataOfNoOther(f.blockId)

\* ---------------------------------------------------------------- C29
\* C29: a setActiveBlock(id) that does not throw leaves the block of that id
\* active and every other stored block inactive; for an id of no stored
\* block it throws and leaves every block as it was
C29_OneActiveBlock ==
  [][lastCall'.op = "setActiveBlock" =>
       IF lastCall'.blockId \in DOMAIN dbBlocks
       THEN /\ ~lastCall'.raised
            /\ DOMAIN dbBlocks' = DOMAIN dbBlocks
            /\ \A b \in DOMAIN dbBlocks' :
                 /\ dbBlocks'[b].isActive = (b = lastCall'.blockId)
                 /\ dbBlocks'[b].generic = dbBlocks[b].generic
       ELSE /\ lastCall'.raised
            /\ dbBlocks' = dbBlocks]_vars

\* a call that activated its block and deactivated another one
C29_Witness ==
  /\ lastCall.op = "setActiveBlock" /\ ~lastCall.raised
  /\ lastCall.puts = 2
  /\ Cardinality(DOMAIN dbBlocks) >= 2
  /\ dbBlocks[lastCall.blockId].isActive

\* ---------------------------------------------------------------- C30
\* the stores that hold a record of the block
StoresOf(blockId) == {s \in Stores : blockId \in dbRecords[s]}

\* C30: after deleteBlock(id) the block is gone and no store holds a record
\* of that block id
C30_NoRecordRemains ==
  lastCall.op = "deleteBlock" =>
    /\ lastCall.blockId \notin DOMAIN dbBlocks
    /\ StoresOf(lastCall.blockId) = {}

====
